---- MODULE Spec2Model ----
(***************************************************************************)
(* A model of fast-go-annotations: the field grammar of a GAF 2.1 row      *)
(* (annotation/fields.rs), the typed row and its conversion to a           *)
(* GoAssociation (annotation/mod.rs, gaf.rs, model.rs), the Context        *)
(* lookups (meta/), and the rule engine and validation (rules.rs,          *)
(* validate.rs).                                                           *)
(*                                                                         *)
(* A text (Rust String / &str) is a sequence of symbols.  The characters   *)
(* the grammar looks at (":", "|", ",", "(", ")", " ") are symbols of      *)
(* their own; a run of other characters is one symbol.  In message texts   *)
(* the backquote of the Rust format strings is written as an apostrophe.   *)
(***************************************************************************)
EXTENDS Integers, Sequences, FiniteSets, TLC

VARIABLES
    ctx,        \* which Context the run uses (see Context below)
    pc,         \* position of the run
    line,       \* validate_gaf_2_1: the RawGaf2_1Record being validated
    converted,  \* validate_gaf_2_1: 'association', the Result of convert_raw
    base_row,   \* convert_raw: the Result of BaseGaf2_1Row::try_from
    attempted,  \* history: the columns try_from called a parser on
    called,     \* history: the capabilities parse_annotation evaluated
    current_association, \* run_rules: 'current_association'
    k,          \* run_rules: index (1-based) of the next rule of rules()
    results,    \* run_rules: 'results', Vec<(String, RuleResult)>
    result_set, \* the ResultSet returned (rule id -> RuleResult)
    maybe_assoc,\* validate_gaf_2_1: the Option<GoAssociation> returned
    trail,      \* history: per rule call, the association passed, the
                \* RuleTagResult of rule_impl and the association returned
    input,      \* the driver: what the csv reader yields per data row
    pos,        \* the driver: the number of data rows dealt with
    report,     \* the driver: 'report'
    writer,     \* the driver: whether annotations_writer is Some
    written,    \* the records handed to the writer
    field,      \* a field on its own: type, text, parsed value, Display
    lookup      \* a lookup of a table on its own: arguments and result

\* the variables validate_gaf_2_1 does not touch
outer_vars == <<input, pos, report, writer, written, field, lookup>>

vars == <<ctx, pc, line, converted, base_row, attempted, called,
          current_association,
          k, results, result_set, maybe_assoc, trail, outer_vars>>

----------------------------------------------------------------------------
(* Option and Result *)

None == [some |-> FALSE]
Some(x) == [some |-> TRUE, val |-> x]

Ok(v) == [ok |-> TRUE, val |-> v]
Err(e) == [ok |-> FALSE, err |-> e]

----------------------------------------------------------------------------
(* Text helpers: str::split, str::splitn(2, _), [String]::join, contains *)

RECURSIVE IndexOf(_, _, _)
\* least index >= from at which symbol c occurs in text t, 0 when none
IndexOf(t, c, from) ==
    IF from > Len(t) THEN 0
    ELSE IF t[from] = c THEN from
    ELSE IndexOf(t, c, from + 1)

Contains(t, c) == IndexOf(t, c, 1) # 0

RECURSIVE Split(_, _)
\* str::split(c): the segments between occurrences of c, at least one
Split(t, c) ==
    LET i == IndexOf(t, c, 1)
    IN  IF i = 0 THEN <<t>>
        ELSE <<SubSeq(t, 1, i - 1)>> \o Split(SubSeq(t, i + 1, Len(t)), c)

\* str::splitn(2, c): split at the first occurrence of c only
SplitN2(t, c) ==
    LET i == IndexOf(t, c, 1)
    IN  IF i = 0 THEN <<t>>
        ELSE <<SubSeq(t, 1, i - 1), SubSeq(t, i + 1, Len(t))>>

RECURSIVE Join(_, _)
\* [String]::join(sep)
Join(ts, sep) ==
    IF Len(ts) = 0 THEN <<>>
    ELSE IF Len(ts) = 1 THEN ts[1]
    ELSE ts[1] \o sep \o Join(Tail(ts), sep)

\* text t has pattern p at position i
MatchAt(t, p, i) ==
    /\ i + Len(p) - 1 <= Len(t)
    /\ \A j \in 1..Len(p) : t[i + j - 1] = p[j]

RECURSIVE FindFrom(_, _, _)
\* least index >= i at which pattern p occurs in t, 0 when none
FindFrom(t, p, i) ==
    IF i + Len(p) - 1 > Len(t) THEN 0
    ELSE IF MatchAt(t, p, i) THEN i
    ELSE FindFrom(t, p, i + 1)

RECURSIVE SplitStr(_, _)
\* str::split(p) for a non-empty pattern text p
SplitStr(t, p) ==
    LET i == FindFrom(t, p, 1)
    IN  IF i = 0 THEN <<t>>
        ELSE <<SubSeq(t, 1, i - 1)>>
             \o SplitStr(SubSeq(t, i + Len(p), Len(t)), p)

RECURSIVE SelectErrs(_)
\* the errors of a sequence of Results, in order
SelectErrs(rs) ==
    IF Len(rs) = 0 THEN <<>>
    ELSE (IF rs[1].ok THEN <<>> ELSE <<rs[1].err>>) \o SelectErrs(Tail(rs))

Vals(rs) == [i \in 1..Len(rs) |-> rs[i].val]

----------------------------------------------------------------------------
(* annotation/fields.rs: leaf field types *)

Curie(ns, id) == [namespace |-> ns, identifier |-> id]

same_namespace(c, ns) == ns = c.namespace

CurieString(c) == c.namespace \o <<":">> \o c.identifier

MsgCurieEmpty ==
    <<"Curies cannot be empty. They take the form 'Namespace:Identifier'">>

ParseCurie(entity) ==
    LET split == SplitN2(entity, ":")
    IN  IF Len(split) = 1 THEN Err(MsgCurieEmpty)
        ELSE IF split[1] = <<>> /\ split[2] = <<>> THEN Err(MsgCurieEmpty)
        ELSE IF split[1] = <<>>
             THEN Err(<<"Curie Namespaces cannot be empty">>)
        ELSE IF split[2] = <<>>
             THEN Err(<<"Curie Identifiers cannot be empty">>)
        ELSE Ok(Curie(split[1], split[2]))

EcoCodes ==
    {"EXP", "IDA", "IPI", "IMP", "IMR", "IGI", "IEP", "HTP", "HDA", "HMP",
     "HGI", "HEP", "IBA", "IBD", "IKR", "IRD", "ISS", "ISO", "ISA", "ISM",
     "IGC", "RCA", "TAS", "NAS", "IC", "ND", "IEA"}

ParseEcoCode(entity) ==
    IF Len(entity) = 1 /\ entity[1] \in EcoCodes
    THEN Ok(entity[1])
    ELSE Err(<<"ECO code '">> \o entity \o <<"' not found">>)

EcoCodeString(code) == <<code>>

\* Aspect::try_from(char): the raw column is one character
ParseAspect(entity) ==
    IF entity = "C" THEN Ok("CellComponent")
    ELSE IF entity = "F" THEN Ok("MolecularFunction")
    ELSE IF entity = "P" THEN Ok("BioProcess")
    ELSE Err(<<"Aspect must be 'C', 'F', or 'P', but received '", entity,
               "'">>)

as_char(aspect) ==
    CASE aspect = "CellComponent" -> "C"
      [] aspect = "MolecularFunction" -> "F"
      [] aspect = "BioProcess" -> "P"

ParseNoSpaceString(entity) ==
    IF Contains(entity, " ")
    THEN Err(<<"Spaces are not allowed">>)
    ELSE Ok(entity)

ParseNot(entity) ==
    IF entity = <<"NOT">> THEN Ok("Not")
    ELSE Err(<<"'">> \o entity \o <<"' should be 'NOT'">>)

NotString == <<"NOT">>

ParsePlainString(entity) ==
    IF entity = <<>> THEN Err(<<"Field cannot be empty">>)
    ELSE Ok(entity)

\* the texts chrono parses with "%Y%m%d"
DateTexts == {<<"20180711">>, <<"20200101">>}

ParseDate(entity) ==
    IF entity \in DateTexts THEN Ok(entity)
    ELSE Err(<<"input is not a date">>)

DateString(d) == d

\* Label forwards to NoSpaceString
ParseLabel(entity) ==
    LET nospace == ParseNoSpaceString(entity)
    IN  IF nospace.ok THEN Ok(nospace.val) ELSE nospace

----------------------------------------------------------------------------
(* annotation/fields.rs: compound field types.  They are generic over the  *)
(* types of their parts; a type is given by a descriptor, a record whose   *)
(* kind names the Rust type and whose other fields are the descriptors of  *)
(* its type parameters (ListField<Curie> is ListFieldOf(CurieT)).  A       *)
(* ListField and a Conjunction are the sequence of their items.            *)

CurieT == [kind |-> "Curie"]
EcoCodeT == [kind |-> "EcoCode"]
AspectT == [kind |-> "Aspect"]
NoSpaceStringT == [kind |-> "NoSpaceString"]
NotT == [kind |-> "Not"]
PlainStringT == [kind |-> "PlainString"]
DateT == [kind |-> "Date"]
LabelT == [kind |-> "Label"]
ListFieldOf(item) == [kind |-> "ListField", item |-> item]
ConjunctionOf(item) == [kind |-> "Conjunction", item |-> item]
OneOrTwoItemsOf(item) == [kind |-> "OneOrTwoItems", item |-> item]
EitherOrBothOf(l, r) == [kind |-> "EitherOrBoth", left |-> l, right |-> r]
ClassExpressionOf(r, f) ==
    [kind |-> "ClassExpression", relation |-> r, filler |-> f]

\* T::try_from(entity) and the Display of a value of T, for the type T a
\* descriptor gives; defined below
RECURSIVE TryFrom(_, _)
RECURSIVE to_string(_, _)

\* an alternative to ParseListField that reports the first error only
ParseListFieldFirstError(item, entity) ==
    IF entity = <<>> THEN Ok(<<>>)
    ELSE LET pieces == Split(entity, "|")
             rs == [i \in 1..Len(pieces) |-> TryFrom(item, pieces[i])]
             errors == SelectErrs(rs)
         IN  IF errors # <<>>
             THEN Err(<<"Errors parsing '">> \o entity \o <<"': ">>
                      \o errors[1])
             ELSE Ok(Vals(rs))

\* ListField<T>::try_from, item being T
ParseListField(item, entity) ==
    IF entity = <<>> THEN Ok(<<>>)
    ELSE LET pieces == Split(entity, "|")
             rs == [i \in 1..Len(pieces) |-> TryFrom(item, pieces[i])]
             errors == SelectErrs(rs)
         IN  IF errors # <<>>
             THEN Err(<<"Errors parsing '">> \o entity \o <<"': ">>
                      \o Join(errors, <<"; ">>))
             ELSE Ok(Vals(rs))

\* an alternative to ListFieldString that joins with the Conjunction's comma
ListFieldStringComma(item, items) ==
    Join([i \in 1..Len(items) |-> to_string(item, items[i])], <<",">>)

\* Display for ListField<T>
ListFieldString(item, items) ==
    Join([i \in 1..Len(items) |-> to_string(item, items[i])], <<"|">>)

\* Conjunction<E>::try_from, item being E
ParseConjunction(item, entity) ==
    LET pieces == Split(entity, ",")
        rs == [i \in 1..Len(pieces) |-> TryFrom(item, pieces[i])]
        errors == SelectErrs(rs)
    IN  IF errors # <<>>
        THEN Err(<<"Errors parsing '">> \o entity \o <<"': ">>
                 \o Join(errors, <<"; ">>))
        ELSE Ok(Vals(rs))

\* Display for Conjunction<E>
ConjunctionString(item, elements) ==
    Join([i \in 1..Len(elements) |-> to_string(item, elements[i])], <<",">>)

One(a) == [tag |-> "One", first |-> a]
Two(a, b) == [tag |-> "Two", first |-> a, second |-> b]

\* OneOrTwoItems<T>::try_from, item being T
ParseOneOrTwoItems(item, entity) ==
    LET split == SplitN2(entity, "|")
        one == TryFrom(item, split[1])
    IN  IF one.ok
        THEN IF Len(split) = 2
             THEN LET two == TryFrom(item, split[2])
                  IN  IF two.ok THEN Ok(Two(one.val, two.val))
                      ELSE Err(<<"Error parsing ">> \o entity \o <<": ">>
                               \o two.err)
             ELSE Ok(One(one.val))
        ELSE Err(<<"Error parsing ">> \o entity \o <<": ">> \o one.err)

\* Display for OneOrTwoItems<T>
OneOrTwoItemsString(item, v) ==
    IF v.tag = "One" THEN to_string(item, v.first)
    ELSE to_string(item, v.first) \o <<"|">> \o to_string(item, v.second)

Left(l) == [tag |-> "Left", left |-> l]
Right(r) == [tag |-> "Right", right |-> r]
Both(l, r) == [tag |-> "Both", left |-> l, right |-> r]

\* an alternative to ParseEitherOrBoth that falls back to a Right of the
\* first segment when the second segment is no R
ParseEitherOrBothFallback(l, r, entity) ==
    LET split == SplitN2(entity, "|")
        first == split[1]
        an_l == TryFrom(l, first)
        first_r == TryFrom(r, first)
    IN  IF an_l.ok
        THEN IF Len(split) = 2
             THEN LET an_r == TryFrom(r, split[2])
                  IN  IF an_r.ok THEN Ok(Both(an_l.val, an_r.val))
                      ELSE IF first_r.ok THEN Ok(Right(first_r.val))
                      ELSE Err(<<"Failed to parse ">> \o entity \o <<": ">>
                               \o an_r.err)
             ELSE Ok(Left(an_l.val))
        ELSE IF first_r.ok THEN Ok(Right(first_r.val))
             ELSE Err(<<"Failed to parse ">> \o entity \o <<": ">>
                      \o an_l.err \o <<" or ">> \o first_r.err)

\* EitherOrBoth<L, R>::try_from
ParseEitherOrBoth(l, r, entity) ==
    LET split == SplitN2(entity, "|")
        first == split[1]
        an_l == TryFrom(l, first)
    IN  IF an_l.ok
        THEN IF Len(split) = 2
             THEN LET an_r == TryFrom(r, split[2])
                  IN  IF an_r.ok THEN Ok(Both(an_l.val, an_r.val))
                      ELSE Err(<<"Failed to parse ">> \o entity \o <<": ">>
                               \o an_r.err)
             ELSE Ok(Left(an_l.val))
        ELSE LET an_r == TryFrom(r, first)
             IN  IF an_r.ok THEN Ok(Right(an_r.val))
                 ELSE Err(<<"Failed to parse ">> \o entity \o <<": ">>
                          \o an_l.err \o <<" or ">> \o an_r.err)

ClassExpression(relation, filler) == [relation |-> relation, filler |-> filler]

\* the regex ^(.+)\((.+)\)$ : the text ends with ")", and the first group,
\* being greedy, ends at the last "(" that leaves both groups non-empty;
\* 0 when the text does not match
PatternOpen(entity) ==
    LET n == Len(entity)
        opens == {i \in 2..(n - 2) : entity[i] = "("}
    IN  IF n >= 4 /\ entity[n] = ")" /\ opens # {}
        THEN CHOOSE i \in opens : \A j \in opens : j <= i
        ELSE 0

\* an alternative to ParseClassExpression that ends the relation at the
\* first "(" of the text
ParseClassExpressionFirstOpen(r, f, entity) ==
    LET open == IF PatternOpen(entity) # 0 THEN IndexOf(entity, "(", 2)
                ELSE 0
    IN  IF open # 0
        THEN LET relation == TryFrom(r, SubSeq(entity, 1, open - 1))
                 filler == TryFrom(f, SubSeq(entity, open + 1,
                                             Len(entity) - 1))
             IN  IF relation.ok
                 THEN IF filler.ok
                      THEN Ok(ClassExpression(relation.val, filler.val))
                      ELSE Err(filler.err)
                 ELSE Err(relation.err)
        ELSE Err(<<"Error parsing ">> \o entity
                 \o <<". Must be 'relation(filler)'">>)

\* ClassExpression<R, F>::try_from
ParseClassExpression(r, f, entity) ==
    LET open == PatternOpen(entity)
    IN  IF open # 0
        THEN LET relation == TryFrom(r, SubSeq(entity, 1, open - 1))
                 filler == TryFrom(f, SubSeq(entity, open + 1,
                                             Len(entity) - 1))
             IN  IF relation.ok
                 THEN IF filler.ok
                      THEN Ok(ClassExpression(relation.val, filler.val))
                      ELSE Err(filler.err)
                 ELSE Err(relation.err)
        ELSE Err(<<"Error parsing ">> \o entity
                 \o <<". Must be 'relation(filler)'">>)

\* Display for ClassExpression<R, F>
ClassExpressionString(r, f, ce) ==
    to_string(r, ce.relation) \o <<"(">> \o to_string(f, ce.filler) \o <<")">>

PlainStringString(p) == p
LabelString(l) == l

\* T::try_from(entity): the impl of TryFrom<&str> for the type ty
TryFrom(ty, entity) ==
    CASE ty.kind = "Curie" -> ParseCurie(entity)
      [] ty.kind = "EcoCode" -> ParseEcoCode(entity)
      [] ty.kind = "Aspect" -> ParseAspect(entity)
      [] ty.kind = "NoSpaceString" -> ParseNoSpaceString(entity)
      [] ty.kind = "Not" -> ParseNot(entity)
      [] ty.kind = "PlainString" -> ParsePlainString(entity)
      [] ty.kind = "Date" -> ParseDate(entity)
      [] ty.kind = "Label" -> ParseLabel(entity)
      [] ty.kind = "ListField" -> ParseListField(ty.item, entity)
      [] ty.kind = "Conjunction" -> ParseConjunction(ty.item, entity)
      [] ty.kind = "OneOrTwoItems" -> ParseOneOrTwoItems(ty.item, entity)
      [] ty.kind = "EitherOrBoth" ->
            ParseEitherOrBoth(ty.left, ty.right, entity)
      [] ty.kind = "ClassExpression" ->
            ParseClassExpression(ty.relation, ty.filler, entity)

\* value.to_string(): the impl of Display for the type ty (NoSpaceString,
\* Not and EitherOrBoth have none)
to_string(ty, value) ==
    CASE ty.kind = "Curie" -> CurieString(value)
      [] ty.kind = "EcoCode" -> EcoCodeString(value)
      [] ty.kind = "Aspect" -> <<as_char(value)>>
      [] ty.kind = "PlainString" -> PlainStringString(value)
      [] ty.kind = "Date" -> DateString(value)
      [] ty.kind = "Label" -> LabelString(value)
      [] ty.kind = "ListField" -> ListFieldString(ty.item, value)
      [] ty.kind = "Conjunction" -> ConjunctionString(ty.item, value)
      [] ty.kind = "OneOrTwoItems" -> OneOrTwoItemsString(ty.item, value)
      [] ty.kind = "ClassExpression" ->
            ClassExpressionString(ty.relation, ty.filler, value)

----------------------------------------------------------------------------
(* meta/curie.rs, meta/eco.rs, meta/mod.rs: the Context and its lookups *)

OBO == <<"http://purl.obolibrary.org/obo/">>

\* default_curie_mapping(): (Uri, Prefix) pairs
default_curie_mapping ==
    << <<OBO \o <<"RO_">>, <<"RO">>>>,
       <<OBO \o <<"GO_">>, <<"GO">>>>,
       <<OBO \o <<"ECO_">>, <<"ECO">>>>,
       <<OBO \o <<"BFO_">>, <<"BFO">>>>,
       <<OBO \o <<"GOREL_">>, <<"GO_REL">>>> >>

\* default_label_mapping(): (Label, Uri) pairs
default_label_mapping ==
    <<
       <<<<"occurs_in">>, OBO \o <<"BFO_", "0000066">>>>,
       <<<<"happens_during">>, OBO \o <<"RO_", "0002092">>>>,
       <<<<"has_input">>, OBO \o <<"RO_", "0002233">>>>,
       <<<<"results_in_specification_of">>, OBO \o <<"RO_", "0002356">>>>,
       <<<<"part_of">>, OBO \o <<"BFO_", "0000050">>>>,
       <<<<"has_part">>, OBO \o <<"BFO_", "0000051">>>>,
       <<<<"results_in_development_of">>, OBO \o <<"RO_", "0002296">>>>,
       <<<<"results_in_movement_of">>, OBO \o <<"RO_", "0002565">>>>,
       <<<<"occurs_at">>, OBO \o <<"GOREL_", "0000501">>>>,
       <<<<"stabilizes">>, OBO \o <<"GOREL_", "0000018">>>>,
       <<<<"positively_regulates">>, OBO \o <<"RO_", "0002213">>>>,
       <<<<"regulates_transport_of">>, OBO \o <<"RO_", "0002011">>>>,
       <<<<"regulates_transcription_of">>, OBO \o <<"GOREL_", "0098788">>>>,
       <<<<"causally_upstream_of">>, OBO \o <<"RO_", "0002411">>>>,
       <<<<"regulates_activity_of">>, OBO \o <<"GOREL_", "0098702">>>>,
       <<<<"adjacent_to">>, OBO \o <<"RO_", "0002220">>>>,
       <<<<"results_in_acquisition_of_features_of">>, OBO \o <<"RO_", "0002315">>>>,
       <<<<"results_in_morphogenesis_of">>, OBO \o <<"RO_", "0002298">>>>,
       <<<<"results_in_maturation_of">>, OBO \o <<"RO_", "0002299">>>>,
       <<<<"has_participant">>, OBO \o <<"RO_", "0000057">>>>,
       <<<<"transports_or_maintains_localization_of">>, OBO \o <<"RO_", "0002313">>>>,
       <<<<"negatively_regulates">>, OBO \o <<"RO_", "0002212">>>>,
       <<<<"regulates">>, OBO \o <<"RO_", "0002211">>>>,
       <<<<"regulates_expression_of">>, OBO \o <<"GOREL_", "0098789">>>>,
       <<<<"has_target_end_location">>, OBO \o <<"RO_", "0002339">>>>,
       <<<<"produced_by">>, OBO \o <<"RO_", "0003001">>>>,
       <<<<"has_end_location">>, OBO \o <<"RO_", "0002232">>>>,
       <<<<"directly_positively_regulates">>, OBO \o <<"RO_", "0002629">>>>,
       <<<<"has_direct_input">>, OBO \o <<"GOREL_", "0000752">>>>,
       <<<<"enables">>, OBO \o <<"RO_", "0002327">>>>,
       <<<<"enabled_by">>, OBO \o <<"RO_", "0002333">>>>,
       <<<<"involved_in">>, OBO \o <<"RO_", "0002331">>>>,
       <<<<"acts_upstream_of">>, OBO \o <<"RO_", "0002263">>>>,
       <<<<"colocalizes_with">>, OBO \o <<"RO_", "0002325">>>>,
       <<<<"contributes_to">>, OBO \o <<"RO_", "0002326">>>>,
       <<<<"acts_upstream_of_or_within">>, OBO \o <<"RO_", "0002264">>>>,
       <<<<"acts_upstream_of_or_within_positive_effect">>, OBO \o <<"RO_", "0004032">>>>,
       <<<<"acts_upstream_of_or_within_negative_effect">>, OBO \o <<"RO_", "0004033">>>>,
       <<<<"acts_upstream_of_negative_effect">>, OBO \o <<"RO_", "0004035">>>>,
       <<<<"acts_upstream_of_positive_effect">>, OBO \o <<"RO_", "0004034">>>>,
       <<<<"located_in">>, OBO \o <<"RO_", "0001025">>>>,
       <<<<"is_active_in">>, OBO \o <<"RO_", "0002432">>>>,
       <<<<"exists_during">>, OBO \o <<"GOREL_", "0000032">>>>,
       <<<<"coincident_with">>, OBO \o <<"RO_", "0002008">>>>,
       <<<<"has_regulation_target">>, OBO \o <<"GOREL_", "0000015">>>>,
       <<<<"not_happens_during">>, OBO \o <<"GOREL_", "0000025">>>>,
       <<<<"not_exists_during">>, OBO \o <<"GOREL_", "0000026">>>>,
       <<<<"directly_negatively_regulates">>, OBO \o <<"RO_", "0002449">>>>,
       <<<<"inhibited_by">>, OBO \o <<"GOREL_", "0000508">>>>,
       <<<<"activated_by">>, OBO \o <<"GOREL_", "0000507">>>>,
       <<<<"regulates_o_acts_on_population_of">>, OBO \o <<"GOREL_", "0001008">>>>,
       <<<<"regulates_o_occurs_in">>, OBO \o <<"GOREL_", "0001004">>>>,
       <<<<"regulates_o_results_in_movement_of">>, OBO \o <<"GOREL_", "0001005">>>>,
       <<<<"acts_on_population_of">>, OBO \o <<"GOREL_", "0001006">>>>,
       <<<<"regulates_o_has_input">>, OBO \o <<"GOREL_", "0001030">>>>,
       <<<<"regulates_o_has_participant">>, OBO \o <<"GOREL_", "0001016">>>>,
       <<<<"has_output_o_axis_of">>, OBO \o <<"GOREL_", "0001002">>>>,
       <<<<"regulates_o_results_in_formation_of">>, OBO \o <<"GOREL_", "0001025">>>>,
       <<<<"regulates_o_results_in_acquisition_of_features_of">>, OBO \o <<"GOREL_", "0001010">>>>,
       <<<<"regulates_o_has_agent">>, OBO \o <<"GOREL_", "0001011">>>>,
       <<<<"results_in_formation_of">>, OBO \o <<"RO_", "0002297">>>>,
       <<<<"has_output_o_axis_of">>, OBO \o <<"GOREL_", "0001002">>>>,
       <<<<"has_start_location">>, OBO \o <<"RO_", "0002231">>>>,
       <<<<"has_output">>, OBO \o <<"GOREL_", "0000006">>>>,
       <<<<"results_in_commitment_to">>, OBO \o <<"RO_", "0002348">>>>,
       <<<<"regulates_o_results_in_commitment_to">>, OBO \o <<"GOREL_", "0001022">>>>,
       <<<<"regulates_o_has_output">>, OBO \o <<"GOREL_", "0001003">>>>,
       <<<<"has_target_end_location">>, OBO \o <<"RO_", "0002339">>>>,
       <<<<"regulates_o_results_in_development_of">>, OBO \o <<"GOREL_", "0001023">>>>,
       <<<<"results_in_determination_of">>, OBO \o <<"RO_", "0002349">>>>,
       <<<<"has_target_end_location">>, OBO \o <<"RO_", "0002339">>>>,
       <<<<"regulates_o_results_in_maturation_of">>, OBO \o <<"GOREL_", "0001012">>>>,
       <<<<"regulates_o_results_in_morphogenesis_of">>, OBO \o <<"GOREL_", "0001026">>>>,
       <<<<"has_agent">>, OBO \o <<"RO_", "0002218">>>>,
       <<<<"causally_upstream_of_or_within">>, OBO \o <<"RO_", "0002418">>>>,
       <<<<"overlaps">>, OBO \o <<"RO_", "0002131">>>>,
       <<<<"has_target_start_location">>, OBO \o <<"RO_", "0002338">>>>,
       <<<<"capable_of_part_of">>, OBO \o <<"RO_", "0002216">>>>,
       <<<<"regulates_o_results_in_specification_of">>, OBO \o <<"GOREL_", "0001027">>>>,
       <<<<"results_in_division_of">>, OBO \o <<"GOREL_", "0001019">>>>,
       <<<<"regulates_translation_of">>, OBO \o <<"GOREL_", "0098790">>>>,
       <<<<"imports">>, OBO \o <<"RO_", "0002340">>>>,
       <<<<"directly_regulates">>, OBO \o <<"RO_", "0002578">>>>,
       <<<<"regulates_o_results_in_division_of">>, OBO \o <<"GOREL_", "0001024">>>>
    >>

\* default_eco_mappings(): ((EcoCode, Option<Curie>), Curie) pairs
default_eco_mappings ==
    <<
       <<<<"EXP", None>>, Curie(<<"ECO">>, <<"0000269">>)>>,
       <<<<"HDA", None>>, Curie(<<"ECO">>, <<"0007005">>)>>,
       <<<<"HEP", None>>, Curie(<<"ECO">>, <<"0007007">>)>>,
       <<<<"HGI", None>>, Curie(<<"ECO">>, <<"0007003">>)>>,
       <<<<"HMP", None>>, Curie(<<"ECO">>, <<"0007001">>)>>,
       <<<<"HTP", None>>, Curie(<<"ECO">>, <<"0006056">>)>>,
       <<<<"IBA", None>>, Curie(<<"ECO">>, <<"0000318">>)>>,
       <<<<"IBD", None>>, Curie(<<"ECO">>, <<"0000319">>)>>,
       <<<<"IC", None>>, Curie(<<"ECO">>, <<"0000305">>)>>,
       <<<<"IDA", None>>, Curie(<<"ECO">>, <<"0000314">>)>>,
       <<<<"IEA", None>>, Curie(<<"ECO">>, <<"0000501">>)>>,
       <<<<"IEA", Some(Curie(<<"GO_REF">>, <<"0000002">>))>>, Curie(<<"ECO">>, <<"0000256">>)>>,
       <<<<"IEA", Some(Curie(<<"GO_REF">>, <<"0000003">>))>>, Curie(<<"ECO">>, <<"0000501">>)>>,
       <<<<"IEA", Some(Curie(<<"GO_REF">>, <<"0000004">>))>>, Curie(<<"ECO">>, <<"0000501">>)>>,
       <<<<"IEA", Some(Curie(<<"GO_REF">>, <<"0000019">>))>>, Curie(<<"ECO">>, <<"0000265">>)>>,
       <<<<"IEA", Some(Curie(<<"GO_REF">>, <<"0000020">>))>>, Curie(<<"ECO">>, <<"0000265">>)>>,
       <<<<"IEA", Some(Curie(<<"GO_REF">>, <<"0000023">>))>>, Curie(<<"ECO">>, <<"0000501">>)>>,
       <<<<"IEA", Some(Curie(<<"GO_REF">>, <<"0000035">>))>>, Curie(<<"ECO">>, <<"0000265">>)>>,
       <<<<"IEA", Some(Curie(<<"GO_REF">>, <<"0000037">>))>>, Curie(<<"ECO">>, <<"0000322">>)>>,
       <<<<"IEA", Some(Curie(<<"GO_REF">>, <<"0000038">>))>>, Curie(<<"ECO">>, <<"0000323">>)>>,
       <<<<"IEA", Some(Curie(<<"GO_REF">>, <<"0000039">>))>>, Curie(<<"ECO">>, <<"0000322">>)>>,
       <<<<"IEA", Some(Curie(<<"GO_REF">>, <<"0000041">>))>>, Curie(<<"ECO">>, <<"0000322">>)>>,
       <<<<"IEA", Some(Curie(<<"GO_REF">>, <<"0000040">>))>>, Curie(<<"ECO">>, <<"0000323">>)>>,
       <<<<"IEA", Some(Curie(<<"GO_REF">>, <<"0000049">>))>>, Curie(<<"ECO">>, <<"0000265">>)>>,
       <<<<"IEA", Some(Curie(<<"GO_REF">>, <<"0000107">>))>>, Curie(<<"ECO">>, <<"0000256">>)>>,
       <<<<"IEA", Some(Curie(<<"GO_REF">>, <<"0000108">>))>>, Curie(<<"ECO">>, <<"0000363">>)>>,
       <<<<"IEP", None>>, Curie(<<"ECO">>, <<"0000270">>)>>,
       <<<<"IGC", None>>, Curie(<<"ECO">>, <<"0000317">>)>>,
       <<<<"IGC", Some(Curie(<<"GO_REF">>, <<"0000025">>))>>, Curie(<<"ECO">>, <<"0000354">>)>>,
       <<<<"IKR", None>>, Curie(<<"ECO">>, <<"0000320">>)>>,
       <<<<"IMP", None>>, Curie(<<"ECO">>, <<"0000315">>)>>,
       <<<<"IMR", None>>, Curie(<<"ECO">>, <<"0000320">>)>>,
       <<<<"IPI", None>>, Curie(<<"ECO">>, <<"0000353">>)>>,
       <<<<"IGI", None>>, Curie(<<"ECO">>, <<"0000316">>)>>,
       <<<<"IRD", None>>, Curie(<<"ECO">>, <<"0000321">>)>>,
       <<<<"ISA", None>>, Curie(<<"ECO">>, <<"0000247">>)>>,
       <<<<"ISM", None>>, Curie(<<"ECO">>, <<"0000255">>)>>,
       <<<<"ISO", None>>, Curie(<<"ECO">>, <<"0000266">>)>>,
       <<<<"ISS", None>>, Curie(<<"ECO">>, <<"0000250">>)>>,
       <<<<"ISS", Some(Curie(<<"GO_REF">>, <<"0000012">>))>>, Curie(<<"ECO">>, <<"0000031">>)>>,
       <<<<"ISS", Some(Curie(<<"GO_REF">>, <<"0000027">>))>>, Curie(<<"ECO">>, <<"0000031">>)>>,
       <<<<"ISS", Some(Curie(<<"GO_REF">>, <<"0000011">>))>>, Curie(<<"ECO">>, <<"0000255">>)>>,
       <<<<"NAS", None>>, Curie(<<"ECO">>, <<"0000303">>)>>,
       <<<<"ND", None>>, Curie(<<"ECO">>, <<"0000307">>)>>,
       <<<<"RCA", None>>, Curie(<<"ECO">>, <<"0000245">>)>>,
       <<<<"TAS", None>>, Curie(<<"ECO">>, <<"0000304">>)>>
    >>

\* HashMap::extend from a Vec of (key, value): a later pair replaces an
\* earlier one with the same key.  The map is a set of <<key, value>>.
Extend(map, pairs) ==
    {e \in map : \A j \in 1..Len(pairs) : pairs[j][1] # e[1]}
    \cup {pairs[i] : i \in {i \in 1..Len(pairs) :
                        \A j \in (i + 1)..Len(pairs) :
                            pairs[j][1] # pairs[i][1]}}

\* the elements of s at the indices in keep, in order
SubSeqAt(s, keep) ==
    [n \in 1..Cardinality(keep) |->
        s[CHOOSE i \in keep : Cardinality({j \in keep : j <= i}) = n]]

\* BiHashMap::extend: inserting a pair removes the pairs that share its
\* left or its right value.  The map is the sequence of its pairs in the
\* order its iterators visit them.
BiExtend(map, pairs) ==
    LET all == map \o pairs
        keep == {i \in 1..Len(all) :
                    \A j \in (i + 1)..Len(all) :
                        all[j][1] # all[i][1] /\ all[j][2] # all[i][2]}
    IN  SubSeqAt(all, keep)

MapHas(map, key) == \E e \in map : e[1] = key
MapGet(map, key) == (CHOOSE e \in map : e[1] = key)[2]

Range(s) == {s[i] : i \in 1..Len(s)}

\* EcoCodeMapping::default
DefaultEcoMapping ==
    [eco_to_curie |-> Extend({}, default_eco_mappings),
     curie_to_eco |-> Extend({}, [i \in 1..Len(default_eco_mappings) |->
                          <<default_eco_mappings[i][2],
                            default_eco_mappings[i][1][1]>>])]

\* EcoCodeMapping::new
EmptyEcoMapping == [eco_to_curie |-> {}, curie_to_eco |-> {}]

\* an alternative to eco_to_curie that does not retry with (eco, None)
EcoToCurieNoRetry(m, eco, goref) ==
    IF MapHas(m.eco_to_curie, <<eco, goref>>)
    THEN Some(MapGet(m.eco_to_curie, <<eco, goref>>))
    ELSE None

\* EcoCodeMapping::eco_to_curie
eco_to_curie(m, eco, goref) ==
    IF MapHas(m.eco_to_curie, <<eco, goref>>)
    THEN Some(MapGet(m.eco_to_curie, <<eco, goref>>))
    ELSE IF MapHas(m.eco_to_curie, <<eco, None>>)
    THEN Some(MapGet(m.eco_to_curie, <<eco, None>>))
    ELSE None

\* EcoCodeMapping::curie_to_eco
curie_to_eco(m, curie) ==
    IF MapHas(m.curie_to_eco, curie)
    THEN Some(MapGet(m.curie_to_eco, curie))
    ELSE None

\* CurieMapping::uri_for_curie
uri_for_curie(mapping, curie) ==
    LET hits == {e \in Range(mapping) : e[2] = curie.namespace}
    IN  IF hits = {} THEN None
        ELSE Some((CHOOSE e \in hits : TRUE)[1] \o curie.identifier)

RECURSIVE CurieForUriFrom(_, _, _)
\* the loop of curie_for_uri from the i-th pair of the iteration order
CurieForUriFrom(mapping, uri, i) ==
    IF i > Len(mapping) THEN None
    ELSE LET pieces == SplitStr(uri, mapping[i][1])
         IN  IF Len(pieces) = 2
             THEN Some(Curie(mapping[i][2], pieces[2]))
             ELSE CurieForUriFrom(mapping, uri, i + 1)

\* CurieMapping::curie_for_uri
curie_for_uri(mapping, uri) == CurieForUriFrom(mapping, uri, 1)

\* LabelToUri::label_uri
label_uri(mapping, label) ==
    IF \E e \in Range(mapping) : e[1] = label
    THEN Some((CHOOSE e \in Range(mapping) : e[1] = label)[2])
    ELSE None

\* LabelToUri::uri_label
uri_label(mapping, uri) ==
    IF \E e \in Range(mapping) : e[2] = uri
    THEN Some((CHOOSE e \in Range(mapping) : e[2] = uri)[1])
    ELSE None

\* Context::label_to_curie
label_to_curie(context, label) ==
    LET uri == label_uri(context.label_mapping, label)
    IN  IF uri.some THEN curie_for_uri(context.uri_mapping, uri.val)
        ELSE None

\* Context::curie_to_label
curie_to_label(context, curie) ==
    LET uri == uri_for_curie(context.uri_mapping, curie)
    IN  IF uri.some THEN uri_label(context.label_mapping, uri.val)
        ELSE None

\* Ontology::node: the ontology is a function from node id (a URI) to node
OntologyNode(ontology, id) ==
    IF id \in DOMAIN ontology THEN Some(ontology[id]) ELSE None

\* a fastobo_graphs Node, as far as NodeDeprecated and NodeAspect read it
Node(deprecated, replaced_by, aspect) ==
    [deprecated |-> deprecated, replaced_by |-> replaced_by,
     aspect |-> aspect]

----------------------------------------------------------------------------
(* annotation/mod.rs: RawGaf2_1Record -> BaseGaf2_1Row.  A record and a    *)
(* row are sequences of 17 columns; Rust's column i is element i + 1.      *)

NumColumns == 17

\* the types of the fields of BaseGaf2_1Row that are compound
QualifierT == EitherOrBothOf(NotT, LabelT)
TaxonT == OneOrTwoItemsOf(CurieT)
ExtensionsT == ListFieldOf(ConjunctionOf(ClassExpressionOf(LabelT, CurieT)))

\* the type of field i (0-based) of BaseGaf2_1Row; of the fields 3, 9
\* and 16 it is the type inside the Option
FieldT(i) ==
    CASE i \in {0, 1, 2, 14} -> NoSpaceStringT
      [] i = 3 -> QualifierT
      [] i = 4 -> CurieT
      [] i \in {5, 7} -> ListFieldOf(CurieT)
      [] i = 6 -> EcoCodeT
      [] i = 8 -> AspectT
      [] i = 9 -> PlainStringT
      [] i = 10 -> ListFieldOf(PlainStringT)
      [] i = 11 -> PlainStringT
      [] i = 12 -> TaxonT
      [] i = 13 -> DateT
      [] i = 15 -> ExtensionsT
      [] i = 16 -> CurieT

OptionalColumns == {3, 9, 16}

\* match &record.i { None => Ok(None), Some(f) => T::try_from(f).map(Some) }
ParseOptional(ty, opt) ==
    IF opt.some
    THEN LET r == TryFrom(ty, opt.val)
         IN  IF r.ok THEN Ok(Some(r.val)) ELSE r
    ELSE Ok(None)

\* the conversion try_from applies to column i (0-based) of the record
ParseColumn(rec, i) ==
    IF i \in OptionalColumns
    THEN ParseOptional(FieldT(i), rec[i + 1])
    ELSE TryFrom(FieldT(i), rec[i + 1])

\* an alternative to TryFromColumns that converts every column and
\* reports the error of the last invalid one
TryFromAllColumns(rec, i, fields) ==
    LET invalid == {j \in 0..(NumColumns - 1) : ~ParseColumn(rec, j).ok}
        last == CHOOSE j \in invalid : \A o \in invalid : o <= j
    IN  IF invalid = {}
        THEN [res |-> Ok([j \in 1..NumColumns |-> ParseColumn(rec, j - 1).val]),
              attempted |-> 0..(NumColumns - 1)]
        ELSE [res |-> Err(ParseColumn(rec, last).err),
              attempted |-> 0..(NumColumns - 1)]

RECURSIVE TryFromColumns(_, _, _)
\* the nested and_then chain of try_from from column i on, fields being the
\* columns 0..i-1 already converted.  The result also tells which columns
\* a parser was called on.
TryFromColumns(rec, i, fields) ==
    IF i = NumColumns
    THEN [res |-> Ok(fields), attempted |-> 0..(i - 1)]
    ELSE LET f == ParseColumn(rec, i)
         IN  IF f.ok
             THEN TryFromColumns(rec, i + 1, Append(fields, f.val))
             ELSE [res |-> Err(f.err), attempted |-> 0..i]

\* TryFrom<RawGaf2_1Record> for BaseGaf2_1Row
BaseRowTryFrom(rec) == TryFromColumns(rec, 0, <<>>)

----------------------------------------------------------------------------
(* annotation/gaf.rs and annotation/model.rs: BaseGaf2_1Row ->             *)
(* GoAssociation                                                           *)

Col(row, i) == row[i + 1]

FirstTaxon(row) == Col(row, 12).first

\* HasSubject::subject
subject(row, context) ==
    Ok([id |-> Curie(Col(row, 0), Col(row, 1)),
        label |-> Col(row, 2),
        fullname |-> Col(row, 9),
        synonyms |-> Col(row, 10),
        kind |-> Col(row, 11),
        taxon |-> Some(FirstTaxon(row))])

relation_from_aspect(aspect) ==
    CASE aspect = "BioProcess" -> Curie(<<"RO">>, <<"0002331">>)
      [] aspect = "CellComponent" -> Curie(<<"BFO">>, <<"0000050">>)
      [] aspect = "MolecularFunction" -> Curie(<<"RO">>, <<"0002327">>)

\* an alternative to relation that fails on a label the Context cannot
\* resolve
RelationOrError(row, context) ==
    LET qual == Col(row, 3)
        qualifier_label ==
            IF qual.some /\ qual.val.tag \in {"Right", "Both"}
            THEN Some(qual.val.right) ELSE None
        rel == IF qualifier_label.some
               THEN label_to_curie(context, qualifier_label.val)
               ELSE None
    IN  IF rel.some THEN Ok(rel.val)
        ELSE IF qualifier_label.some
        THEN Err(<<"Could not find relation CURIE for '">>
                 \o qualifier_label.val \o <<"'">>)
        ELSE Ok(relation_from_aspect(Col(row, 8)))

\* HasRelation::relation
relation(row, context) ==
    LET qual == Col(row, 3)
        qualifier_label ==
            IF qual.some /\ qual.val.tag \in {"Right", "Both"}
            THEN Some(qual.val.right) ELSE None
        rel == IF qualifier_label.some
               THEN label_to_curie(context, qualifier_label.val)
               ELSE None
    IN  IF rel.some THEN Ok(rel.val)
        ELSE Ok(relation_from_aspect(Col(row, 8)))

Term(id, taxon) == [id |-> id, taxon |-> taxon]

\* HasTerm::term
term(row, context) ==
    IF same_namespace(Col(row, 4), <<"GO">>)
    THEN Ok(Term(Col(row, 4), Some(FirstTaxon(row))))
    ELSE Err(<<"Curie must be a GO term">>)

Evidence(id, references, with_from) ==
    [id |-> id, has_supporting_reference |-> references,
     with_support_from |-> with_from]

\* HasEvidence::evidence
evidence(row, context) ==
    LET gorefs == SelectSeq(Col(row, 5),
                            LAMBDA c : same_namespace(c, <<"GO_REF">>))
        goref == IF Len(gorefs) > 0 THEN Some(gorefs[1]) ELSE None
        eco_curie == eco_to_curie(context.eco_mapping, Col(row, 6), goref)
    IN  IF eco_curie.some
        THEN Ok(Evidence(eco_curie.val, Col(row, 5),
                         [i \in 1..Len(Col(row, 7)) |-> <<Col(row, 7)[i]>>]))
        ELSE Err(<<"Could not find ECO CURIE for '", Col(row, 6), "'">>)

\* HasMetadata::metadata
metadata(row, context) ==
    LET taxon == Col(row, 12)
        qual == Col(row, 3)
    IN  Ok([negated |-> qual.some /\ qual.val.tag \in {"Both", "Left"},
            aspect |-> Some(Col(row, 8)),
            interacting_taxon |->
                IF taxon.tag = "Two" THEN Some(taxon.second) ELSE None,
            provided_by |-> Col(row, 14),
            date |-> Col(row, 13),
            properties |-> <<>>])

\* the closure map_label_expression of HasExtensions::extensions
map_label_expression(context, label_expr) ==
    LET rel == label_to_curie(context, label_expr.relation)
    IN  IF rel.some
        THEN Ok(ClassExpression(rel.val, label_expr.filler))
        ELSE Err(<<"Could not find relation CURIE for '">>
                 \o label_expr.relation \o <<"'">>)

\* iter().map(m).collect::<Result<Vec<_>, E>>(): the values when every
\* result is Ok, the first error otherwise
CollectResults(rs) ==
    LET errors == SelectErrs(rs)
    IN  IF errors = <<>> THEN Ok(Vals(rs)) ELSE Err(errors[1])

\* HasExtensions::extensions
extensions(row, context) ==
    LET sub == Col(row, 16)
        subject_extension ==
            IF sub.some
            THEN Some(ClassExpression(Curie(<<"rdfs">>, <<"subClassOf">>),
                                      sub.val))
            ELSE None
        MapConj(conj) ==
            CollectResults([i \in 1..Len(conj) |->
                               map_label_expression(context, conj[i])])
        object_extension ==
            CollectResults([i \in 1..Len(Col(row, 15)) |->
                               MapConj(Col(row, 15)[i])])
    IN  IF object_extension.ok
        THEN Ok([subject |-> subject_extension,
                 object |-> object_extension.val])
        ELSE object_extension

\* From<(Subject, Relation, Term, Evidence, Metadata, Extensions)>
GoAssociationFrom(s, r, t, e, m, x) ==
    [subject |-> s, relation |-> r, object |-> t, evidence |-> e,
     negated |-> m.negated, aspect |-> m.aspect,
     interacting_taxon |-> m.interacting_taxon,
     provided_by |-> m.provided_by, date |-> m.date,
     properties |-> m.properties,
     subject_extension |-> x.subject, object_extension |-> x.object]

\* an alternative to parse_annotation that looks at the extensions before
\* the term
ParseAnnotationExtensionsFirst(row, context) ==
    LET s == subject(row, context)
        r == relation(row, context)
        t == term(row, context)
        e == evidence(row, context)
        m == metadata(row, context)
        x == extensions(row, context)
    IN  IF ~s.ok THEN s
        ELSE IF ~r.ok THEN r
        ELSE IF ~x.ok THEN x
        ELSE IF ~t.ok THEN t
        ELSE IF ~e.ok THEN e
        ELSE IF ~m.ok THEN m
        ELSE Ok(GoAssociationFrom(s.val, r.val, t.val, e.val, m.val, x.val))

\* TryFrom<&AnnotationWithContext> for GoAssociation, parse_annotation
parse_annotation(row, context) ==
    LET s == subject(row, context)
        r == relation(row, context)
        t == term(row, context)
        e == evidence(row, context)
        m == metadata(row, context)
        x == extensions(row, context)
    IN  IF ~s.ok THEN s
        ELSE IF ~r.ok THEN r
        ELSE IF ~t.ok THEN t
        ELSE IF ~e.ok THEN e
        ELSE IF ~m.ok THEN m
        ELSE IF ~x.ok THEN x
        ELSE Ok(GoAssociationFrom(s.val, r.val, t.val, e.val, m.val, x.val))

\* convert_raw: try_into().and_then(parse_annotation)
convert_raw(raw, context) ==
    LET b == BaseRowTryFrom(raw).res
    IN  IF b.ok THEN parse_annotation(b.val, context) ELSE b

\* the capabilities the and_then chain of try_from evaluates, in order: the
\* closure of an and_then runs only on Ok
ParseAnnotationCalled(row, context) ==
    <<"subject">> \o
    IF ~subject(row, context).ok THEN <<>>
    ELSE <<"relation">> \o
    IF ~relation(row, context).ok THEN <<>>
    ELSE <<"term">> \o
    IF ~term(row, context).ok THEN <<>>
    ELSE <<"evidence">> \o
    IF ~evidence(row, context).ok THEN <<>>
    ELSE <<"metadata">> \o
    IF ~metadata(row, context).ok THEN <<>>
    ELSE <<"extensions">>

\* the capabilities convert_raw evaluates: none when try_into fails
ConvertRawCalled(raw, context) ==
    LET b == BaseRowTryFrom(raw).res
    IN  IF b.ok THEN ParseAnnotationCalled(b.val, context) ELSE <<>>

----------------------------------------------------------------------------
(* rules.rs: RuleResult, ResultSet, the rules and Rule::validate *)

RuleStates == <<"Ok", "Warning", "Repaired", "Error">>

\* the derived PartialOrd of RuleState: the position of the variant
StateRank(state) == CHOOSE i \in 1..Len(RuleStates) : RuleStates[i] = state

\* RuleResult::new
RuleResult(id, message, entity, entity_name, valid, state) ==
    [rule |-> id, valid |-> valid, message |-> message,
     entity_name |-> entity_name, entity |-> entity, state |-> state]

\* ResultSet::add_results; a ResultSet is the set of <<rule id, RuleResult>>
add_results(all_results, pairs) == Extend(all_results, pairs)

\* an alternative to add_result that drops the result
AddResultDropped(all_results, result) == all_results

\* ResultSet::add_result
add_result(all_results, result) ==
    Extend(all_results, << <<result.rule, result>> >>)

\* an alternative to line_skipped that also skips a line with a Warning
LineSkippedOnWarning(all_results) ==
    \E e \in all_results : e[2].state \in {"Error", "Warning"}

\* ResultSet::line_skipped
line_skipped(all_results) == \E e \in all_results : e[2].state = "Error"

\* ResultSet::worst_level_state
worst_level_state(all_results) ==
    IF all_results = {} THEN None
    ELSE Some((CHOOSE e \in all_results : \A o \in all_results :
                  StateRank(o[2].state) <= StateRank(e[2].state))[2].state)

IdWidth == 7

Digits == <<"0", "1", "2", "3", "4", "5", "6", "7", "8", "9">>

RECURSIVE Pow10(_)
Pow10(n) == IF n = 0 THEN 1 ELSE 10 * Pow10(n - 1)

\* format!("{:0width$}", id): the decimal digits of id, zero-padded
ZeroPadded(id, width) ==
    [i \in 1..width |-> Digits[((id \div Pow10(width - i)) % 10) + 1]]

\* an alternative to rule_id that gives every rule the same identifier
RuleIdShared(id) == <<"gorule-">> \o ZeroPadded(0, IdWidth)

\* Rule::meta().rule_id
rule_id(id) == <<"gorule-">> \o ZeroPadded(id, IdWidth)

\* Rule::description
description(id) ==
    CASE id = 2 ->
           <<"No 'NOT' annotations to 'protein binding ; GO:0005515'">>
      [] id = 11 ->
           <<"ND evidence code should be to root nodes only, and no terms other than root nodes can have the evidence code ND">>
      [] id = 18 -> <<"IPI annotations require a With/From entry">>
      [] id = 20 ->
           <<"Automatic repair of annotations to merged or obsoleted terms">>

\* the RuleTagResult variants; Panic is the unwinding of an unwrap or
\* expect on None inside rule_impl
Pass(assoc) == [tag |-> "Pass", assoc |-> assoc]
Warning(assoc, name, offending) ==
    [tag |-> "Warning", assoc |-> assoc, name |-> name,
     offending |-> offending]
Repair(assoc, name, offending) ==
    [tag |-> "Repair", assoc |-> assoc, name |-> name,
     offending |-> offending]
Error(name, offending) ==
    [tag |-> "Error", name |-> name, offending |-> offending]
Panic == [tag |-> "Panic"]

\* Rule02::rule_impl
Rule02(association, context) ==
    LET goterm == Curie(<<"GO">>, <<"0005515">>)
    IN  IF association.object.id = goterm /\ association.negated
        THEN Warning(association, <<"GO Term">>, CurieString(goterm))
        ELSE Pass(association)

\* Rule11::default: the root terms and the ND evidence
Rule11Roots ==
    {Curie(<<"GO">>, <<"0003674">>), Curie(<<"GO">>, <<"0005575">>),
     Curie(<<"GO">>, <<"0008150">>)}
Rule11Nd == Curie(<<"ECO">>, <<"0000307">>)

\* an alternative to Rule11 that only looks at root terms
Rule11RootOnly(association, context) ==
    IF association.object.id \in Rule11Roots
         /\ association.evidence.id # Rule11Nd
    THEN Error(<<"GO Term">>, CurieString(association.object.id))
    ELSE Pass(association)

\* Rule11::rule_impl
Rule11(association, context) ==
    IF \/ (association.object.id \in Rule11Roots
            /\ association.evidence.id = Rule11Nd)
       \/ (association.object.id \notin Rule11Roots
            /\ association.evidence.id # Rule11Nd)
    THEN Pass(association)
    ELSE Error(<<"GO Term">>, CurieString(association.object.id))

\* Rule18::rule_impl
Rule18(association, context) ==
    LET ipi == Curie(<<"ECO">>, <<"0000353">>)
    IN  IF association.evidence.id = ipi
        THEN IF association.evidence.with_support_from = <<>>
             THEN Pass(association)
             ELSE Warning(association, <<"with/from">>, <<"Empty">>)
        ELSE Pass(association)

\* an alternative to Rule20 whose repair also drops the taxon of the term
Rule20RepairDropsTaxon(association, context) ==
    LET go_uri == uri_for_curie(context.uri_mapping, association.object.id)
    IN  IF ~go_uri.some THEN Panic
        ELSE LET node == OntologyNode(context.ontology, go_uri.val)
             IN  IF node.some
                 THEN IF node.val.deprecated
                      THEN IF node.val.replaced_by.some
                           THEN LET repl_curie ==
                                      curie_for_uri(context.uri_mapping,
                                                    node.val.replaced_by.val)
                                    repaired ==
                                      [association EXCEPT
                                          !.object.id = repl_curie.val,
                                          !.object.taxon = None]
                                IN  IF ~repl_curie.some THEN Panic
                                    ELSE Repair(repaired,
                                                <<"GO term repaired">>,
                                                CurieString(repl_curie.val))
                           ELSE Error(<<"GO term could not be repaired">>,
                                      CurieString(association.object.id))
                      ELSE Pass(association)
                 ELSE Error(<<"GO term is not in ontology">>,
                            CurieString(association.object.id))

\* Rule20::rule_impl
Rule20(association, context) ==
    LET go_uri == uri_for_curie(context.uri_mapping, association.object.id)
    IN  IF ~go_uri.some THEN Panic
        ELSE LET node == OntologyNode(context.ontology, go_uri.val)
             IN  IF node.some
                 THEN IF node.val.deprecated
                      THEN IF node.val.replaced_by.some
                           THEN LET repl_curie ==
                                      curie_for_uri(context.uri_mapping,
                                                    node.val.replaced_by.val)
                                    repaired ==
                                      [association EXCEPT
                                          !.object.id = repl_curie.val]
                                IN  IF ~repl_curie.some THEN Panic
                                    ELSE Repair(repaired,
                                                <<"GO term repaired">>,
                                                CurieString(repl_curie.val))
                           ELSE Error(<<"GO term could not be repaired">>,
                                      CurieString(association.object.id))
                      ELSE Pass(association)
                 ELSE Error(<<"GO term is not in ontology">>,
                            CurieString(association.object.id))

\* Rule::rule_impl of the rule with the given id (dynamic dispatch)
rule_impl(id, association, context) ==
    CASE id = 2 -> Rule02(association, context)
      [] id = 11 -> Rule11(association, context)
      [] id = 18 -> Rule18(association, context)
      [] id = 20 -> Rule20(association, context)

\* Rule::validate: the association returned, the RuleResult and, for the
\* history, the variant rule_impl returned; a panic of rule_impl unwinds
validate(id, association, context) ==
    LET r == rule_impl(id, association, context)
    IN  CASE r.tag = "Pass" ->
               [tag |-> r.tag, assoc |-> r.assoc,
                result |-> RuleResult(rule_id(id), description(id),
                                      <<>>, <<>>, TRUE, "Ok")]
          [] r.tag = "Warning" ->
               [tag |-> r.tag, assoc |-> r.assoc,
                result |-> RuleResult(rule_id(id), description(id),
                                      r.offending, r.name, TRUE, "Warning")]
          [] r.tag = "Repair" ->
               [tag |-> r.tag, assoc |-> r.assoc,
                result |-> RuleResult(rule_id(id), description(id),
                                      r.offending, r.name, TRUE, "Repaired")]
          [] r.tag = "Error" ->
               [tag |-> r.tag, assoc |-> association,
                result |-> RuleResult(rule_id(id), description(id),
                                      r.offending, r.name, TRUE, "Warning")]
          [] r.tag = "Panic" -> [tag |-> r.tag]

\* rules(): the ids of the rules of the engine, in order
rules == <<2, 11, 20>>

\* an alternative to RuleResultFromError that reports a Warning
RuleResultFromErrorAsWarning(error) ==
    RuleResult(<<"gorule-", "0", "0", "0", "0", "0", "0", "1">>, error,
               <<>>, <<>>, FALSE, "Warning")

\* From<String> for RuleResult (validate.rs)
RuleResultFromError(error) ==
    RuleResult(<<"gorule-", "0", "0", "0", "0", "0", "0", "1">>, error,
               <<>>, <<>>, FALSE, "Error")

----------------------------------------------------------------------------
(* annotation/mod.rs: GoAssociation -> BaseGaf2_1Row -> RawGaf2_1Record   *)

RECURSIVE Flatten(_)
\* into_iter().flatten().collect()
Flatten(seqs) ==
    IF Len(seqs) = 0 THEN <<>> ELSE seqs[1] \o Flatten(Tail(seqs))

\* From<(GoAssociation, &Context)> for BaseGaf2_1Row; an unwrap of None
\* panics
BaseRowFrom(association, context) ==
    LET label == curie_to_label(context, association.relation)
        qualifier_field ==
            IF association.negated THEN Both("Not", label.val)
            ELSE Right(label.val)
        go_uri == uri_for_curie(context.uri_mapping, association.object.id)
        node == IF go_uri.some
                THEN OntologyNode(context.ontology, go_uri.val)
                ELSE None
        aspect == IF association.aspect.some THEN association.aspect
                  ELSE IF node.some THEN node.val.aspect
                  ELSE None
        taxon ==
            IF association.object.taxon.some
            THEN IF association.interacting_taxon.some
                 THEN Two(association.object.taxon.val,
                          association.interacting_taxon.val)
                 ELSE One(association.object.taxon.val)
            ELSE One(Curie(<<"taxon">>, <<"000000">>))
        withfrom == Flatten(association.evidence.with_support_from)
        ext == association.object_extension
        ext_labels ==
            [i \in 1..Len(ext) |->
                [j \in 1..Len(ext[i]) |->
                    curie_to_label(context, ext[i][j].relation)]]
        label_extensions ==
            [i \in 1..Len(ext) |->
                [j \in 1..Len(ext[i]) |->
                    ClassExpression(ext_labels[i][j].val, ext[i][j].filler)]]
        subject_ext ==
            IF association.subject_extension.some
            THEN Some(association.subject_extension.val.filler)
            ELSE None
        eco == curie_to_eco(context.eco_mapping, association.evidence.id)
    IN  IF \/ ~label.some
           \/ ~aspect.some
           \/ \E i \in 1..Len(ext) : \E j \in 1..Len(ext[i]) :
                 ~ext_labels[i][j].some
           \/ ~eco.some
        THEN Panic
        ELSE [tag |-> "Row",
              row |-> << association.subject.id.identifier,
                         association.subject.id.namespace,
                         association.subject.label,
                         Some(qualifier_field),
                         association.object.id,
                         association.evidence.has_supporting_reference,
                         eco.val,
                         withfrom,
                         aspect.val,
                         association.subject.fullname,
                         association.subject.synonyms,
                         association.subject.kind,
                         taxon,
                         association.date,
                         association.provided_by,
                         label_extensions,
                         subject_ext >>]

\* From<BaseGaf2_1Row> for RawGaf2_1Record
RawRecordFrom(base) ==
    << Col(base, 0),
       Col(base, 1),
       Col(base, 2),
       IF Col(base, 3).some
       THEN Some(CASE Col(base, 3).val.tag = "Left" -> NotString
                   [] Col(base, 3).val.tag = "Right" -> Col(base, 3).val.right
                   [] Col(base, 3).val.tag = "Both" ->
                         NotString \o <<"|">> \o Col(base, 3).val.right)
       ELSE None,
       CurieString(Col(base, 4)),
       to_string(FieldT(5), Col(base, 5)),
       to_string(FieldT(6), Col(base, 6)),
       to_string(FieldT(7), Col(base, 7)),
       as_char(Col(base, 8)),
       IF Col(base, 9).some THEN Some(Col(base, 9).val) ELSE None,
       to_string(FieldT(10), Col(base, 10)),
       Col(base, 11),
       to_string(FieldT(12), Col(base, 12)),
       to_string(FieldT(13), Col(base, 13)),
       Col(base, 14),
       to_string(FieldT(15), Col(base, 15)),
       IF Col(base, 16).some
       THEN Some(to_string(CurieT, Col(base, 16).val)) ELSE None >>

----------------------------------------------------------------------------
(* report.rs: Level, Message and Report; annotation/mod.rs: Display of a  *)
(* record                                                                 *)

\* Display for RawGaf2_1Record: the 17 columns joined by tabs, an absent
\* column being the empty text
RawRecordString(raw) ==
    Join([i \in 1..NumColumns |->
             IF i - 1 \in OptionalColumns
             THEN IF raw[i].some THEN raw[i].val ELSE <<>>
             ELSE IF i - 1 = 8 THEN <<raw[i]>>
             ELSE raw[i]],
         <<"\t">>)

\* the texts of one character (a char of Rust) among the symbols of the
\* rows
Chars == {"P", "F", "C", "X", ":", "|", ",", "(", ")", " "}

\* csv's deserialize of one record of the file into RawGaf2_1Record: the
\* record must have a field for each of the 17 columns (the records of
\* the runs have no more), column 8 must be one character, and an empty
\* field of an Option column is None
Deserialize(fields) ==
    IF Len(fields) < NumColumns
    THEN Err(<<"CSV deserialize error: invalid length">>)
    ELSE IF ~(Len(fields[9]) = 1 /\ fields[9][1] \in Chars)
    THEN Err(<<"CSV deserialize error: expected a char">>)
    ELSE Ok([i \in 1..NumColumns |->
                IF i - 1 \in OptionalColumns
                THEN IF fields[i] = <<>> THEN None ELSE Some(fields[i])
                ELSE IF i - 1 = 8 THEN fields[i][1]
                ELSE fields[i]])

Levels == <<"Pass", "Warning", "Error">>

LevelRank(level) == CHOOSE i \in 1..Len(Levels) : Levels[i] = level

\* an alternative to LevelFrom that takes a repaired line for a passing one
LevelFromRepairedAsPass(state) ==
    CASE state \in {"Ok", "Repaired"} -> "Pass"
      [] state = "Warning" -> "Warning"
      [] state = "Error" -> "Error"

\* From<RuleState> for Level
LevelFrom(state) ==
    CASE state = "Ok" -> "Pass"
      [] state \in {"Warning", "Repaired"} -> "Warning"
      [] state = "Error" -> "Error"

\* From<(R, RuleResult)> for Message
MessageFrom(raw_line, result) ==
    [line |-> raw_line,
     message |-> result.message,
     level |-> LevelFrom(result.state),
     rule |-> result.rule,
     entity |-> result.entity,
     entity_name |-> result.entity_name]

\* Report::new
ReportNew(name) ==
    [name |-> name, minimum_level |-> "Warning", messages_by_rule |-> <<>>,
     skipped |-> 0, total |-> 0]

\* Report::add_result; messages_by_rule is a function from the rule ids
\* it has an entry for to the sequence of their messages, and result is
\* the ResultSet, which has one RuleResult per rule id
ReportAddResult(rep, original_line, result) ==
    LET stored ==
            {e \in result :
                LevelRank(MessageFrom(original_line, e[2]).level)
                    >= LevelRank(rep.minimum_level)}
        old == rep.messages_by_rule
        Added(rule) ==
            IF \E e \in stored : e[1] = rule
            THEN <<MessageFrom(original_line,
                               (CHOOSE e \in stored : e[1] = rule)[2])>>
            ELSE <<>>
    IN  [rep EXCEPT
            !.total = rep.total + 1,
            !.skipped = IF line_skipped(result) THEN rep.skipped + 1
                        ELSE rep.skipped,
            !.messages_by_rule =
                [rule \in (DOMAIN old) \cup {e[1] : e \in stored} |->
                    (IF rule \in DOMAIN old THEN old[rule] ELSE <<>>)
                        \o Added(rule)]]

----------------------------------------------------------------------------
(* The Contexts of the runs *)

GoUri(id) == OBO \o <<"GO_", id>>

\* Ontology::default(): no node
EmptyOntology == <<>>

\* an ontology as load_ontology builds it: GO:1 is deprecated and replaced
\* by GO:2, GO:3 is deprecated without replacement, GO:4 is deprecated and
\* replaced by a term of an ontology the Context has no prefix for
LoadedOntology ==
    [id \in {GoUri("1"), GoUri("2"), GoUri("3"), GoUri("4"),
             GoUri("0099175"), GoUri("0003674"), GoUri("0005515")} |->
        CASE id = GoUri("1") -> Node(TRUE, Some(GoUri("2")), None)
          [] id = GoUri("3") -> Node(TRUE, None, None)
          [] id = GoUri("4") ->
                Node(TRUE, Some(OBO \o <<"CL_", "0000003">>), None)
          [] id = GoUri("0099175") -> Node(FALSE, None, Some("BioProcess"))
          [] id = GoUri("0003674") ->
                Node(FALSE, None, Some("MolecularFunction"))
          [] OTHER -> Node(FALSE, None, Some("MolecularFunction"))]

\* Context::default()
DefaultContext ==
    [uri_mapping |-> BiExtend(<<>>, default_curie_mapping),
     label_mapping |-> BiExtend(<<>>, default_label_mapping),
     eco_mapping |-> DefaultEcoMapping,
     ontology |-> EmptyOntology]

\* Context::add_ontology
add_ontology(context, ontology) == [context EXCEPT !.ontology = ontology]

ContextIds == {"default", "ontology", "no_eco"}

\* the Context a run uses: the default one, the default one with an
\* ontology added (main.rs), and one whose evidence table is
\* EcoCodeMapping::new()
OntologyContext == add_ontology(DefaultContext, LoadedOntology)
NoEcoContext == [OntologyContext EXCEPT !.eco_mapping = EmptyEcoMapping]

Context(id) ==
    CASE id = "default" -> DefaultContext
      [] id = "ontology" -> OntologyContext
      [] id = "no_eco" -> NoEcoContext

----------------------------------------------------------------------------
(* The rows a run validates: the row of the repository's tests with at     *)
(* most MaxEdits columns replaced by one of the alternatives below.        *)

MaxEdits == 2

BaseRecord ==
    << <<"MGI">>,
       <<"MGI", ":", "98961">>,
       <<"Wnt7a">>,
       None,
       <<"GO", ":", "0099175">>,
       <<"MGI", ":", "MGI", ":", "5014434", "|", "PMID", ":", "21670302">>,
       <<"IMP">>,
       <<>>,
       "P",
       Some(<<"wingless-type", " ", "MMTV">>),
       <<"tw", "|", "Wnt-7a">>,
       <<"protein">>,
       <<"taxon", ":", "10090">>,
       <<"20180711">>,
       <<"SynGO">>,
       <<"occurs_in", "(", "GO", ":", "0098978", ")", ",",
         "occurs_in", "(", "EMAPA", ":", "35405", ")">>,
       None >>

Alternatives ==
    << {<<"M", " ", "GI">>, <<>>},
       {<<"MGI", ":", " ", "98961">>, <<>>},
       {<<"Wnt", " ", "7a">>},
       {Some(<<"NOT">>), Some(<<"part_of">>),
        Some(<<"NOT", "|", "enables">>), Some(<<"my_label">>),
        Some(<<"foo", " ", "bar">>), Some(<<"NOT", "|", "foo", " ", "bar">>)},
       {<<"GO", ":", "0003674">>, <<"GO", ":", "0005515">>,
        <<"GO", ":", "1">>, <<"GO", ":", "3">>, <<"GO", ":", "4">>,
        <<"GO", ":", "9">>, <<"MGI", ":", "1">>, <<"GO">>, <<":", "1">>},
       {<<>>, <<"GO_REF", ":", "0000002">>, <<"PMID", "|", ":", "1">>,
        <<"PMID", ":", "1", "|", "GO_REF", ":", "0000108", "|",
          "GO_REF", ":", "0000002">>},
       {<<"ND">>, <<"IPI">>, <<"IEA">>, <<"XXX">>},
       {<<"MGI", ":", "1234">>, <<"bad">>},
       {"F", "C", "X"},
       {None},
       {<<>>, <<"tw", "|", "|", "x">>},
       {<<>>},
       {<<"taxon", ":", "10090", "|", "taxon", ":", "1234">>, <<"taxon">>,
        <<"taxon", ":", "1", "|", "bad">>},
       {<<"2018">>},
       {<<"Syn", " ", "GO">>},
       {<<>>, <<"broken", "(">>,
        <<"foo_bar", "(", "FB", ":", "1234", ")">>},
       {Some(<<"UniProtKB", ":", "P12345">>), Some(<<"bad">>)} >>

RECURSIVE RecordsFrom(_, _)
\* the columns i..17 of the records that replace at most edits of them
RecordsFrom(i, edits) ==
    IF i > NumColumns THEN {<<>>}
    ELSE {<<BaseRecord[i]>> \o r : r \in RecordsFrom(i + 1, edits)}
         \cup (IF edits = 0 THEN {}
               ELSE {<<a>> \o r : a \in Alternatives[i],
                                  r \in RecordsFrom(i + 1, edits - 1)})

RawRecords == RecordsFrom(1, MaxEdits)

----------------------------------------------------------------------------
(* The run: validate_gaf_2_1 on one record *)

Init ==
    /\ ctx \in ContextIds
    /\ pc = "idle"
    /\ line = None
    /\ converted = None
    /\ base_row = None
    /\ attempted = {}
    /\ called = <<>>
    /\ current_association = None
    /\ k = 0
    /\ results = <<>>
    /\ result_set = {}
    /\ maybe_assoc = None
    /\ trail = <<>>
    /\ input = <<>>
    /\ pos = 0
    /\ report = ReportNew(<<"gaf">>)
    /\ writer = FALSE
    /\ written = <<>>
    /\ field = None
    /\ lookup = None

\* validate_gaf_2_1 up to the match on the conversion's result: an Ok
\* association enters run_rules, an Err is wrapped up and returned
Convert(raw) ==
    /\ pc = "idle"
    /\ line' = Some(raw)
    /\ \E b \in {BaseRowTryFrom(raw)} :
          /\ base_row' = b.res
          /\ attempted' = b.attempted
    /\ called' = ConvertRawCalled(raw, Context(ctx))
    /\ \E association \in {convert_raw(raw, Context(ctx))} :
          /\ converted' = association
          /\ IF association.ok
             THEN /\ pc' = "run_rules"
                  /\ current_association' = Some(association.val)
                  /\ k' = 1
                  /\ UNCHANGED <<result_set, maybe_assoc>>
             ELSE /\ pc' = "validated"
                  /\ result_set' =
                       add_result({}, RuleResultFromError(association.err))
                  /\ maybe_assoc' = None
                  /\ UNCHANGED <<current_association, k>>
    /\ UNCHANGED <<ctx, results, trail>>
    /\ UNCHANGED outer_vars

\* an alternative to RunRule that leaves the loop at the first Error
RunRuleStopAtError ==
    /\ pc = "run_rules"
    /\ k <= Len(rules)
    /\ LET v == validate(rules[k], current_association.val, Context(ctx))
       IN  IF v.tag = "Panic"
           THEN /\ pc' = "panicked"
                /\ trail' = Append(trail,
                       [rule |-> rules[k], tag |-> v.tag,
                        input |-> current_association.val])
                /\ UNCHANGED <<current_association, k, results>>
           ELSE /\ current_association' = Some(v.assoc)
                /\ results' = Append(results, <<v.result.rule, v.result>>)
                /\ k' = IF v.tag = "Error" THEN Len(rules) + 1 ELSE k + 1
                /\ trail' = Append(trail,
                       [rule |-> rules[k], tag |-> v.tag,
                        input |-> current_association.val,
                        output |-> v.assoc])
                /\ pc' = pc
    /\ UNCHANGED <<ctx, line, converted, base_row, attempted, called,
                   result_set, maybe_assoc>>
    /\ UNCHANGED outer_vars

\* an alternative to RunRule that never updates current_association
RunRulePristine ==
    /\ pc = "run_rules"
    /\ k <= Len(rules)
    /\ LET v == validate(rules[k], current_association.val, Context(ctx))
       IN  IF v.tag = "Panic"
           THEN /\ pc' = "panicked"
                /\ trail' = Append(trail,
                       [rule |-> rules[k], tag |-> v.tag,
                        input |-> current_association.val])
                /\ UNCHANGED <<current_association, k, results>>
           ELSE /\ current_association' = current_association
                /\ results' = Append(results, <<v.result.rule, v.result>>)
                /\ k' = k + 1
                /\ trail' = Append(trail,
                       [rule |-> rules[k], tag |-> v.tag,
                        input |-> current_association.val,
                        output |-> v.assoc])
                /\ pc' = pc
    /\ UNCHANGED <<ctx, line, converted, base_row, attempted, called,
                   result_set, maybe_assoc>>
    /\ UNCHANGED outer_vars

\* run_rules: one turn of the loop over rules()
RunRule ==
    /\ pc = "run_rules"
    /\ k <= Len(rules)
    /\ LET v == validate(rules[k], current_association.val, Context(ctx))
       IN  IF v.tag = "Panic"
           THEN /\ pc' = "panicked"
                /\ trail' = Append(trail,
                       [rule |-> rules[k], tag |-> v.tag,
                        input |-> current_association.val])
                /\ UNCHANGED <<current_association, k, results>>
           ELSE /\ current_association' = Some(v.assoc)
                /\ results' = Append(results, <<v.result.rule, v.result>>)
                /\ k' = k + 1
                /\ trail' = Append(trail,
                       [rule |-> rules[k], tag |-> v.tag,
                        input |-> current_association.val,
                        output |-> v.assoc])
                /\ pc' = pc
    /\ UNCHANGED <<ctx, line, converted, base_row, attempted, called,
                   result_set, maybe_assoc>>
    /\ UNCHANGED outer_vars

\* run_rules returns and validate_gaf_2_1 decides on the association
Return ==
    /\ pc = "run_rules"
    /\ k > Len(rules)
    /\ LET rs == add_results({}, results)
       IN  /\ result_set' = rs
           /\ maybe_assoc' = IF worst_level_state(rs) = Some("Error")
                             THEN None
                             ELSE current_association
    /\ pc' = "validated"
    /\ UNCHANGED <<ctx, line, converted, base_row, attempted, called,
                   current_association, k, results, trail>>
    /\ UNCHANGED outer_vars

Next ==
    \/ \E raw \in RawRecords : Convert(raw)
    \/ RunRule
    \/ Return

Spec == Init /\ [][Next]_vars

----------------------------------------------------------------------------
(* One rule on its own: Rule::validate of any rule of rules.rs, Rule18     *)
(* included (rules() does not list it), on a converted association, as     *)
(* the tests of rules.rs call it.                                          *)

RuleIds == {2, 11, 18, 20}

ApplyRule(id) ==
    /\ pc = "run_rules"
    /\ trail = <<>>
    /\ LET v == validate(id, current_association.val, Context(ctx))
       IN  IF v.tag = "Panic"
           THEN /\ pc' = "panicked"
                /\ trail' = <<[rule |-> id, tag |-> v.tag,
                               input |-> current_association.val]>>
                /\ UNCHANGED <<current_association, results>>
           ELSE /\ pc' = "applied"
                /\ current_association' = Some(v.assoc)
                /\ results' = <<<<v.result.rule, v.result>>>>
                /\ trail' = <<[rule |-> id, tag |-> v.tag,
                               input |-> current_association.val,
                               output |-> v.assoc]>>
    /\ UNCHANGED <<ctx, line, converted, base_row, attempted, called, k,
                   result_set, maybe_assoc>>
    /\ UNCHANGED outer_vars

RuleNext ==
    \/ \E raw \in RawRecords : Convert(raw)
    \/ \E id \in RuleIds : ApplyRule(id)

RuleSpec == Init /\ [][RuleNext]_vars

----------------------------------------------------------------------------
(* The way back: an association validate_gaf_2_1 returned is converted to  *)
(* a typed row and on to a record, as main.rs does for the writer.  The    *)
(* conversion takes any Context; written keeps, for each record, the id    *)
(* of the Context it was converted back with.                              *)

WriteBack(c) ==
    /\ pc = "validated"
    /\ maybe_assoc.some
    /\ LET base == BaseRowFrom(maybe_assoc.val, Context(c))
       IN  IF base.tag = "Panic"
           THEN /\ pc' = "panicked"
                /\ UNCHANGED written
           ELSE /\ pc' = "written"
                /\ written' = Append(written,
                       [context |-> c, record |-> RawRecordFrom(base.row)])
    /\ UNCHANGED <<ctx, line, converted, base_row, attempted, called,
                   current_association, k, results, result_set, maybe_assoc,
                   trail, input, pos, report, writer, field, lookup>>

BackNext ==
    \/ \E raw \in RawRecords : Convert(raw)
    \/ RunRule
    \/ Return
    \/ \E c \in ContextIds : WriteBack(c)

BackSpec == Init /\ [][BackNext]_vars

----------------------------------------------------------------------------
(* The driver: validation_annotations_into_results (main.rs) reads the     *)
(* records of the file one after the other, validates each, adds its       *)
(* ResultSet to the report and hands an accepted association, converted    *)
(* back to a record, to the writer if there is one.                        *)

MaxRows == 2

\* the fields of the record of the file a RawGaf2_1Record is read from
FieldsOf(raw) ==
    [i \in 1..NumColumns |->
        IF i - 1 \in OptionalColumns
        THEN IF raw[i].some THEN raw[i].val ELSE <<>>
        ELSE IF i - 1 = 8 THEN <<raw[i]>>
        ELSE raw[i]]

\* the records of the files of the runs: the row of the tests, a row with
\* an invalid term, a row with a deprecated term, a row that lacks its
\* last column, and a row whose aspect has two characters
FileRecords ==
    { FieldsOf(BaseRecord),
      FieldsOf([BaseRecord EXCEPT ![5] = <<"GO">>]),
      FieldsOf([BaseRecord EXCEPT ![5] = <<"GO", ":", "1">>]),
      SubSeq(FieldsOf(BaseRecord), 1, NumColumns - 1),
      [FieldsOf(BaseRecord) EXCEPT ![9] = <<"P", "F">>] }

Files ==
    UNION {[1..n -> FileRecords] : n \in 0..MaxRows}

DriverInit ==
    /\ ctx \in ContextIds
    /\ pc = "idle"
    /\ line = None
    /\ converted = None
    /\ base_row = None
    /\ attempted = {}
    /\ called = <<>>
    /\ current_association = None
    /\ k = 0
    /\ results = <<>>
    /\ result_set = {}
    /\ maybe_assoc = None
    /\ trail = <<>>
    /\ input \in Files
    /\ pos = 0
    /\ report = ReportNew(<<"gaf">>)
    /\ writer \in BOOLEAN
    /\ written = <<>>
    /\ field = None
    /\ lookup = None

\* the loop takes the next record, which deserializes, and validate_gaf_2_1
\* starts on it
ReadRecord ==
    /\ pos < Len(input)
    /\ Deserialize(input[pos + 1]).ok
    /\ Convert(Deserialize(input[pos + 1]).val)

\* the next record does not deserialize: return Err(err)
ReadError ==
    /\ pc = "idle"
    /\ pos < Len(input)
    /\ ~Deserialize(input[pos + 1]).ok
    /\ pc' = "failed"
    /\ UNCHANGED <<ctx, line, converted, base_row, attempted, called,
                   current_association, k, results, result_set, maybe_assoc,
                   trail, outer_vars>>

\* parse_and_report_gaf_2_1 after validate_gaf_2_1: report.add_result
AddResult ==
    /\ pc = "validated"
    /\ report' = ReportAddResult(report, RawRecordString(line.val),
                                 result_set)
    /\ pc' = "reported"
    /\ UNCHANGED <<ctx, line, converted, base_row, attempted, called,
                   current_association, k, results, result_set, maybe_assoc,
                   trail, input, pos, writer, written, field,
                   lookup>>

\* the end of the loop's body: an association that was returned goes,
\* converted back, to the writer if there is one
WriteRecord ==
    /\ pc = "reported"
    /\ LET base == IF maybe_assoc.some /\ writer
                   THEN BaseRowFrom(maybe_assoc.val, Context(ctx))
                   ELSE None
       IN  IF maybe_assoc.some /\ writer /\ base.tag = "Panic"
           THEN /\ pc' = "panicked"
                /\ UNCHANGED <<line, converted, base_row, attempted, called,
                               current_association, k, results, result_set,
                               maybe_assoc, trail, pos, written>>
           ELSE /\ written' =
                     IF maybe_assoc.some /\ writer
                     THEN Append(written,
                                 [context |-> ctx,
                                  record |-> RawRecordFrom(base.row)])
                     ELSE written
                /\ pos' = pos + 1
                /\ pc' = "idle"
                /\ line' = None
                /\ converted' = None
                /\ base_row' = None
                /\ attempted' = {}
                /\ called' = <<>>
                /\ current_association' = None
                /\ k' = 0
                /\ results' = <<>>
                /\ result_set' = {}
                /\ maybe_assoc' = None
                /\ trail' = <<>>
    /\ UNCHANGED <<ctx, input, report, writer, field, lookup>>

\* no record is left: Ok(report)
Finish ==
    /\ pc = "idle"
    /\ pos = Len(input)
    /\ pc' = "done"
    /\ UNCHANGED <<ctx, line, converted, base_row, attempted, called,
                   current_association, k, results, result_set, maybe_assoc,
                   trail, outer_vars>>

DriverNext ==
    \/ ReadRecord
    \/ ReadError
    \/ RunRule
    \/ Return
    \/ AddResult
    \/ WriteRecord
    \/ Finish

DriverSpec == DriverInit /\ [][DriverNext]_vars

----------------------------------------------------------------------------
(* A field on its own: try_from of a field type on a text, then Display    *)
(* of the value, as the tests of fields.rs call them.                      *)

MaxLen == 3

FieldSymbols == {"a", ":", "|", ",", "(", ")", " "}

\* the texts of at most MaxLen symbols, the evidence codes, and texts of
\* the tests of fields.rs and of the rows
FieldTexts ==
    UNION {[1..n -> FieldSymbols] : n \in 0..MaxLen}
    \cup {<<code>> : code \in EcoCodes}
    \cup {<<"a", ":", "a", "|", "a", "|", ":", "a">>,
          <<"a", ":", "a", "|", "a", ":", "a", "|", "a", ":", "a">>,
          <<"a", "(", "a", ":", "a", ")", ",", "a", "(", "a", ":", "a", ")",
            "|", "a", "(", "a", ":", "a", ")">>,
          <<"a", "(", "a", ":", "a", ")">>,
          <<"a", "(", "a", "(", "a", ":", "a", ")">>,
          <<"a", ":", "a", "|", "a", ":", "a">>,
          <<"a", ":", "a", ",", "a", ":", "a">>,
          <<"a", ":", "a", "|", "a", " ", "a">>,
          <<"a", "(", "a", ":", "a">>, <<"a", "(", "a", ":", "a", ")", "a">>,
          <<"a", " ", "a", "(", "a", ":", "a", ")">>,
          <<"a", "\t", "a">>, <<"a", "\n", "a">>,
          <<"NOT">>, <<"NOT", "|", "a">>, <<"NOT", "|", "a", ":", "a">>,
          <<"NOT", "|", "a", " ", "a">>, <<"NOT", "|", "a", "|", "a">>,
          <<"a", ":", "a", "|", "a", " ", "a">>,
          BaseRecord[6], BaseRecord[11], BaseRecord[16]}

\* the field types that have both try_from and Display
FieldTypes ==
    {CurieT, EcoCodeT, LabelT, PlainStringT,
     ListFieldOf(CurieT), ListFieldOf(PlainStringT), ListFieldOf(LabelT),
     ConjunctionOf(CurieT), ConjunctionOf(LabelT), OneOrTwoItemsOf(CurieT),
     ClassExpressionOf(LabelT, CurieT), ExtensionsT}

\* the field types try_from is called on: those above and types that have
\* no Display
ParsedTypes ==
    FieldTypes
    \cup {NoSpaceStringT, QualifierT, EitherOrBothOf(NotT, CurieT),
          EitherOrBothOf(CurieT, LabelT), EitherOrBothOf(CurieT, PlainStringT),
          ClassExpressionOf(CurieT, CurieT)}

FieldInit ==
    /\ ctx = "default"
    /\ pc = "idle"
    /\ line = None
    /\ converted = None
    /\ base_row = None
    /\ attempted = {}
    /\ called = <<>>
    /\ current_association = None
    /\ k = 0
    /\ results = <<>>
    /\ result_set = {}
    /\ maybe_assoc = None
    /\ trail = <<>>
    /\ input = <<>>
    /\ pos = 0
    /\ report = ReportNew(<<"gaf">>)
    /\ writer = FALSE
    /\ written = <<>>
    /\ field = None
    /\ lookup = None

\* T::try_from(text)
ParseField(ty, text) ==
    /\ pc = "idle"
    /\ field' = Some([ty |-> ty, text |-> text,
                      parsed |-> TryFrom(ty, text), shown |-> None])
    /\ pc' = "parsed"
    /\ UNCHANGED <<ctx, line, converted, base_row, attempted, called,
                   current_association, k, results, result_set, maybe_assoc,
                   trail, input, pos, report, writer, written,
                   lookup>>

\* value.to_string() on the value try_from returned
ShowField ==
    /\ pc = "parsed"
    /\ field.val.ty \in FieldTypes
    /\ field.val.parsed.ok
    /\ field' = Some([field.val EXCEPT
                         !.shown = Some(to_string(field.val.ty,
                                                  field.val.parsed.val))])
    /\ pc' = "shown"
    /\ UNCHANGED <<ctx, line, converted, base_row, attempted, called,
                   current_association, k, results, result_set, maybe_assoc,
                   trail, input, pos, report, writer, written,
                   lookup>>

FieldNext ==
    \/ \E ty \in ParsedTypes, text \in FieldTexts : ParseField(ty, text)
    \/ ShowField

FieldSpec == FieldInit /\ [][FieldNext]_vars

----------------------------------------------------------------------------
(* A lookup on its own: curie_for_uri and uri_for_curie of a CurieMapping, *)
(* and the two lookups of the default EcoCodeMapping.  A CurieMapping is   *)
(* a BiHashMap, whose iteration order is any order of its pairs.           *)

\* the pairs main.rs adds to the default ones from the JSON-LD context: a
\* prefix that another one starts with, and a prefix of another ontology
added_curie_mapping ==
    << <<OBO, <<"OBO">>>>,
       <<OBO \o <<"CL_">>, <<"CL">>>> >>

\* the tables of the lookups: CurieMapping::default(), and the default
\* one after add_mappings
LookupTables ==
    {BiExtend(<<>>, default_curie_mapping),
     BiExtend(<<>>, SubSeq(default_curie_mapping, 1, 2)
                    \o added_curie_mapping)}

\* the orders in which left_values() may yield the pairs of a table
Orders(mapping) ==
    {[i \in 1..Len(mapping) |-> mapping[p[i]]] :
        p \in Permutations(1..Len(mapping))}

LookupUris ==
    {OBO \o <<"GO_", "0000001">>,
     OBO \o <<"RO_", "0002331">>,
     OBO \o <<"CL_", "0000003">>,
     OBO \o <<"GO_">>,
     <<"http://example.org/", "x">>,
     <<"zz">> \o OBO \o <<"GO_", "1">>,
     OBO \o <<"GO_", "1">> \o OBO \o <<"GO_", "2">>,
     <<>>}

LookupCuries ==
    {Curie(<<"GO">>, <<"0000001">>),
     Curie(<<"RO">>, <<"0002331">>),
     Curie(<<"BFO">>, <<"0000050">>),
     Curie(<<"OBO">>, <<"GO_", "1">>),
     Curie(<<"XX">>, <<"1">>)}

LookupInit ==
    /\ ctx = "default"
    /\ pc = "idle"
    /\ line = None
    /\ converted = None
    /\ base_row = None
    /\ attempted = {}
    /\ called = <<>>
    /\ current_association = None
    /\ k = 0
    /\ results = <<>>
    /\ result_set = {}
    /\ maybe_assoc = None
    /\ trail = <<>>
    /\ input = <<>>
    /\ pos = 0
    /\ report = ReportNew(<<"gaf">>)
    /\ writer = FALSE
    /\ written = <<>>
    /\ field = None
    /\ lookup = None

\* mapping.curie_for_uri(uri)
CurieForUri(mapping, uri) ==
    /\ pc = "idle"
    /\ lookup' = Some([op |-> "curie_for_uri", mapping |-> mapping,
                       uri |-> uri, res |-> curie_for_uri(mapping, uri)])
    /\ pc' = "looked_up"
    /\ UNCHANGED <<ctx, line, converted, base_row, attempted, called,
                   current_association, k, results, result_set, maybe_assoc,
                   trail, input, pos, report, writer, written, field>>

\* mapping.uri_for_curie(curie), and curie_for_uri of the Uri it gives
UriForCurie(mapping, curie) ==
    /\ pc = "idle"
    /\ LET uri == uri_for_curie(mapping, curie)
       IN  lookup' = Some([op |-> "uri_for_curie", mapping |-> mapping,
                           curie |-> curie, uri |-> uri,
                           res |-> IF uri.some
                                   THEN curie_for_uri(mapping, uri.val)
                                   ELSE None])
    /\ pc' = "looked_up"
    /\ UNCHANGED <<ctx, line, converted, base_row, attempted, called,
                   current_association, k, results, result_set, maybe_assoc,
                   trail, input, pos, report, writer, written, field>>

\* EcoCodeMapping::default().eco_to_curie(code, None), and curie_to_eco
\* of the Curie it gives
EcoToCurie(code) ==
    /\ pc = "idle"
    /\ LET curie == eco_to_curie(DefaultEcoMapping, code, None)
       IN  lookup' = Some([op |-> "eco_to_curie", code |-> code,
                           curie |-> curie,
                           res |-> IF curie.some
                                   THEN curie_to_eco(DefaultEcoMapping,
                                                     curie.val)
                                   ELSE None])
    /\ pc' = "looked_up"
    /\ UNCHANGED <<ctx, line, converted, base_row, attempted, called,
                   current_association, k, results, result_set, maybe_assoc,
                   trail, input, pos, report, writer, written, field>>

LookupNext ==
    \/ \E table \in LookupTables : \E mapping \in Orders(table) :
          \E uri \in LookupUris : CurieForUri(mapping, uri)
    \/ \E table \in LookupTables : \E mapping \in Orders(table) :
          \E curie \in LookupCuries : UriForCurie(mapping, curie)
    \/ \E code \in EcoCodes : EcoToCurie(code)

LookupSpec == LookupInit /\ [][LookupNext]_vars

----------------------------------------------------------------------------
(* Properties of validate_gaf_2_1 and run_rules                            *)

\* C1: validate_gaf_2_1 returns Some(association) if and only if the row
\* converted and no rule of the engine returned an Error verdict for it.
AcceptedIffNoErrorVerdict ==
    pc = "validated" =>
        (maybe_assoc.some <=>
            (converted.ok
               /\ \A i \in 1..Len(trail) : trail[i].tag # "Error"))

\* C2: Rule::validate records every verdict at its own severity (Pass as
\* Ok, Warning as Warning, Repair as Repaired, Error as Error), and a rule
\* that returned Error has an Error entry under its id in the ResultSet
\* run_rules returns.
VerdictRecordedAtOwnSeverity ==
    LET severity(tag) ==
            CASE tag = "Pass" -> "Ok"
              [] tag = "Warning" -> "Warning"
              [] tag = "Repair" -> "Repaired"
              [] tag = "Error" -> "Error"
    IN  /\ \A i \in 1..Len(results) :
              results[i][2].state = severity(trail[i].tag)
        /\ (pc = "validated" /\ converted.ok) =>
              \A i \in 1..Len(trail) :
                  trail[i].tag = "Error" =>
                      \E e \in result_set :
                          /\ e[1] = rule_id(trail[i].rule)
                          /\ e[2].state = "Error"

\* C3: when the rule at position i returns Error, the loop goes on to the
\* rule at position i + 1, which is called on the very association rule i
\* was called on, and whose verdict is in the ResultSet returned.
ErrorDoesNotHaltRules ==
    \A i \in 1..Len(trail) :
        (trail[i].tag = "Error" /\ i < Len(rules)) =>
            /\ Len(trail) = i => (pc = "run_rules" /\ k = i + 1)
            /\ Len(trail) > i =>
                  /\ trail[i + 1].rule = rules[i + 1]
                  /\ trail[i + 1].input = trail[i].input
            /\ pc = "validated" =>
                  /\ Len(trail) > i
                  /\ <<rule_id(rules[i + 1]), results[i + 1][2]>>
                        \in result_set

\* C3 happens: a run has returned in which Rule11 returned Error and Rule20
\* was evaluated after it.
ErrorThenNextRuleRan ==
    /\ pc = "validated"
    /\ Len(trail) = Len(rules)
    /\ trail[2].tag = "Error"
    /\ trail[3].tag \in {"Pass", "Repair", "Error"}

\* C4: the rules are called in the order of rules(), the first on the
\* converted association and each later one on the association the rule
\* before it returned; run_rules returns the association of the last rule.
RulesComposeInOrder ==
    /\ \A i \in 1..Len(trail) : trail[i].rule = rules[i]
    /\ Len(trail) >= 1 => trail[1].input = converted.val
    /\ \A i \in 1..(Len(trail) - 1) : trail[i + 1].input = trail[i].output
    /\ (pc = "validated" /\ converted.ok) =>
          /\ Len(trail) = Len(rules)
          /\ current_association = Some(trail[Len(trail)].output)
          /\ maybe_assoc.some => maybe_assoc = current_association

\* C4 happens: a run has returned whose last rule repaired the association,
\* and the association returned is the repaired one.
RepairedAssociationReturned ==
    /\ pc = "validated"
    /\ Len(trail) = Len(rules)
    /\ trail[Len(trail)].tag = "Repair"
    /\ trail[Len(trail)].output # converted.val
    /\ maybe_assoc = Some(trail[Len(trail)].output)

\* C5: when the conversion of the row fails (a column or a lookup of the
\* Context), no rule is evaluated, no association is returned and the
\* ResultSet has exactly one entry, an Error with the conversion's message.
ConversionFailureBypassesRules ==
    (pc = "validated" /\ ~converted.ok) =>
        /\ trail = <<>>
        /\ results = <<>>
        /\ maybe_assoc = None
        /\ Cardinality(result_set) = 1
        /\ \A e \in result_set :
              /\ e[2].state = "Error"
              /\ e[2].message = converted.err

\* C5 happens: a row whose columns are all valid failed in a lookup of the
\* Context, and validate_gaf_2_1 has returned.
LookupFailureReturned ==
    /\ pc = "validated"
    /\ base_row.ok
    /\ ~converted.ok

\* C6: the evaluation of a rule ends in one of the four verdicts, never in
\* a panic.
RulesEndInVerdict ==
    /\ pc # "panicked"
    /\ \A i \in 1..Len(trail) :
          trail[i].tag \in {"Pass", "Warning", "Repair", "Error"}

\* C7: Rule20 returns Repair with the replacement as term id when the node
\* of the term is deprecated and has a replacement, Error when the node is
\* deprecated without replacement or the ontology has no node for the
\* term, and Pass with the association unchanged otherwise.
Rule20Verdicts ==
    \A i \in 1..Len(trail) :
        trail[i].rule = 20 =>
            LET e == trail[i]
                context == Context(ctx)
                uri == uri_for_curie(context.uri_mapping, e.input.object.id)
                node == IF uri.some
                        THEN OntologyNode(context.ontology, uri.val)
                        ELSE None
            IN  IF ~node.some THEN e.tag = "Error"
                ELSE IF ~node.val.deprecated
                THEN e.tag = "Pass" /\ e.output = e.input
                ELSE IF ~node.val.replaced_by.some THEN e.tag = "Error"
                ELSE /\ e.tag = "Repair"
                     /\ e.output =
                          [e.input EXCEPT !.object.id =
                              curie_for_uri(context.uri_mapping,
                                            node.val.replaced_by.val).val]

\* C8: Rule11 returns Error exactly when "the term is one of GO:0003674,
\* GO:0005575, GO:0008150" and "the evidence is ECO:0000307" disagree, and
\* Pass, with the association unchanged, when they agree.
Rule11Verdicts ==
    \A i \in 1..Len(trail) :
        trail[i].rule = 11 =>
            LET e == trail[i]
                root == e.input.object.id \in
                          {Curie(<<"GO">>, <<"0003674">>),
                           Curie(<<"GO">>, <<"0005575">>),
                           Curie(<<"GO">>, <<"0008150">>)}
                nd == e.input.evidence.id = Curie(<<"ECO">>, <<"0000307">>)
            IN  IF root = nd
                THEN e.tag = "Pass" /\ e.output = e.input
                ELSE e.tag = "Error"

\* C8 happens: Rule11 was called on ND evidence for a term that is no root.
Rule11NdOnNonRoot ==
    \E i \in 1..Len(trail) :
        /\ trail[i].rule = 11
        /\ trail[i].input.evidence.id = Curie(<<"ECO">>, <<"0000307">>)
        /\ trail[i].input.object.id = Curie(<<"GO">>, <<"0099175">>)
        /\ trail[i].tag = "Error"

\* C9: Rule18 returns Warning exactly when the evidence is ECO:0000353
\* (IPI) and with_support_from is empty, and Pass in every other case.
Rule18Verdicts ==
    \A i \in 1..Len(trail) :
        trail[i].rule = 18 =>
            LET e == trail[i]
                ipi == e.input.evidence.id = Curie(<<"ECO">>, <<"0000353">>)
            IN  IF ipi /\ e.input.evidence.with_support_from = <<>>
                THEN e.tag = "Warning"
                ELSE e.tag = "Pass"

\* C10: try_from converts the columns from left to right and stops at the
\* first invalid one: the columns a parser was called on are those up to
\* the lowest invalid column, whose error is the error returned.
TryFromStopsAtFirstInvalidColumn ==
    line.some =>
        LET invalid ==
                {i \in 0..(NumColumns - 1) : ~ParseColumn(line.val, i).ok}
            first == CHOOSE i \in invalid : \A o \in invalid : i <= o
        IN  IF invalid = {}
            THEN base_row.ok /\ attempted = 0..(NumColumns - 1)
            ELSE /\ attempted = 0..first
                 /\ base_row = Err(ParseColumn(line.val, first).err)

\* C10 happens: try_from has returned on a row with two invalid columns
\* whose errors differ.
TwoInvalidColumns ==
    /\ line.some
    /\ \E i, j \in 0..(NumColumns - 1) :
          /\ i < j
          /\ ~ParseColumn(line.val, i).ok
          /\ ~ParseColumn(line.val, j).ok
          /\ ParseColumn(line.val, i).err # ParseColumn(line.val, j).err
          /\ base_row = Err(ParseColumn(line.val, i).err)

----------------------------------------------------------------------------
(* Properties of the conversion of a row to an association                 *)

\* C11: relation never fails: it is the Curie the Context resolves the
\* qualifier label of the row to (a label alone or after NOT) when there
\* is one, and otherwise (no qualifier, NOT only, a label the Context does
\* not resolve) the Curie of the aspect: RO:0002331 for BioProcess,
\* BFO:0000050 for CellComponent, RO:0002327 for MolecularFunction.
RelationFromQualifierOrAspect ==
    (pc # "idle" /\ base_row.ok) =>
        LET row == base_row.val
            q == Col(row, 3)
            label == IF q.some /\ q.val.tag \in {"Right", "Both"}
                     THEN Some(q.val.right) ELSE None
            resolved == IF label.some
                        THEN label_to_curie(Context(ctx), label.val)
                        ELSE None
            of_aspect ==
                CASE Col(row, 8) = "BioProcess" ->
                        Curie(<<"RO">>, <<"0002331">>)
                  [] Col(row, 8) = "CellComponent" ->
                        Curie(<<"BFO">>, <<"0000050">>)
                  [] Col(row, 8) = "MolecularFunction" ->
                        Curie(<<"RO">>, <<"0002327">>)
            expected == IF resolved.some THEN resolved.val ELSE of_aspect
        IN  /\ relation(row, Context(ctx)) = Ok(expected)
            /\ converted.ok => converted.val.relation = expected

\* C11 happens: a row whose qualifier label the Context does not resolve
\* was converted, and its relation is the one of its aspect.
UnresolvedLabelFallsBackToAspect ==
    /\ pc # "idle"
    /\ converted.ok
    /\ Col(base_row.val, 3) = Some(Right(<<"my_label">>))
    /\ ~label_to_curie(Context(ctx), <<"my_label">>).some
    /\ converted.val.relation = Curie(<<"RO">>, <<"0002331">>)

\* C12: evidence looks up (evidence code, first reference of the row whose
\* namespace is GO_REF, if any) in the evidence table of the Context, on a
\* miss (code, none), and fails only when both miss; the default table has
\* an entry (code, none) for every code, so with it evidence never fails.
EvidenceLookupWithRetry ==
    /\ \A code \in EcoCodes :
          \E e \in DefaultEcoMapping.eco_to_curie : e[1] = <<code, None>>
    /\ (pc # "idle" /\ base_row.ok) =>
          LET row == base_row.val
              table == Context(ctx).eco_mapping.eco_to_curie
              refs == Col(row, 5)
              gorefs == {i \in 1..Len(refs) : refs[i].namespace = <<"GO_REF">>}
              goref == IF gorefs = {} THEN None
                       ELSE Some(refs[CHOOSE i \in gorefs :
                                          \A j \in gorefs : i <= j])
              first_hit == {e \in table : e[1] = <<Col(row, 6), goref>>}
              retry_hit == {e \in table : e[1] = <<Col(row, 6), None>>}
              ev == evidence(row, Context(ctx))
          IN  /\ ev.ok <=> (first_hit # {} \/ retry_hit # {})
              /\ (ev.ok /\ first_hit # {}) =>
                    \E e \in first_hit : ev.val.id = e[2]
              /\ (ev.ok /\ first_hit = {}) =>
                    \E e \in retry_hit : ev.val.id = e[2]
              /\ ~ev.ok => ~converted.ok
              /\ converted.ok => converted.val.evidence = ev.val
              /\ ctx \in {"default", "ontology"} => ev.ok

\* C12 happens: a row with a GO_REF reference the table has no entry for
\* with its code was converted by the retry with (code, none).
EvidenceFoundByRetry ==
    /\ pc # "idle"
    /\ converted.ok
    /\ \E i \in 1..Len(Col(base_row.val, 5)) :
          Col(base_row.val, 5)[i].namespace = <<"GO_REF">>
    /\ Col(base_row.val, 6) = "IMP"
    /\ converted.val.evidence.id = Curie(<<"ECO">>, <<"0000315">>)

\* C16: every Curie of an association the conversion produced (subject
\* id, relation, term id and taxon, evidence id, references, with/from,
\* extension relations and fillers) has a non-empty namespace and a
\* non-empty identifier.
CuriesAreNonEmpty ==
    (pc # "idle" /\ converted.ok) =>
        LET a == converted.val
            OptCuries(o) == IF o.some THEN {o.val} ELSE {}
            ExprCuries(ce) == {ce.relation, ce.filler}
            curies ==
                {a.subject.id, a.relation, a.object.id, a.evidence.id}
                \cup OptCuries(a.subject.taxon)
                \cup OptCuries(a.object.taxon)
                \cup OptCuries(a.interacting_taxon)
                \cup Range(a.evidence.has_supporting_reference)
                \cup UNION {Range(a.evidence.with_support_from[i]) :
                               i \in 1..Len(a.evidence.with_support_from)}
                \cup (IF a.subject_extension.some
                      THEN ExprCuries(a.subject_extension.val) ELSE {})
                \cup UNION {UNION {ExprCuries(a.object_extension[i][j]) :
                                      j \in 1..Len(a.object_extension[i])} :
                               i \in 1..Len(a.object_extension)}
        IN  \A c \in curies : c.namespace # <<>> /\ c.identifier # <<>>

\* C23: the conversion evaluates subject, relation, term, evidence,
\* metadata, extensions in this order up to the first that fails, whose
\* error it returns; it yields an association only when all six succeed,
\* and the association has the value of each of the six.
CapabilitiesInOrderUntilFailure ==
    (pc # "idle" /\ base_row.ok) =>
        LET row == base_row.val
            context == Context(ctx)
            order == <<"subject", "relation", "term", "evidence",
                       "metadata", "extensions">>
            Outcome(i) ==
                CASE i = 1 -> subject(row, context)
                  [] i = 2 -> relation(row, context)
                  [] i = 3 -> term(row, context)
                  [] i = 4 -> evidence(row, context)
                  [] i = 5 -> metadata(row, context)
                  [] i = 6 -> extensions(row, context)
            failing == {i \in 1..6 : ~Outcome(i).ok}
            first == CHOOSE i \in failing : \A j \in failing : i <= j
        IN  IF failing = {}
            THEN /\ called = order
                 /\ converted.ok
                 /\ converted.val.subject = Outcome(1).val
                 /\ converted.val.relation = Outcome(2).val
                 /\ converted.val.object = Outcome(3).val
                 /\ converted.val.evidence = Outcome(4).val
                 /\ converted.val.negated = Outcome(5).val.negated
                 /\ converted.val.aspect = Outcome(5).val.aspect
                 /\ converted.val.date = Outcome(5).val.date
                 /\ converted.val.provided_by = Outcome(5).val.provided_by
                 /\ converted.val.subject_extension = Outcome(6).val.subject
                 /\ converted.val.object_extension = Outcome(6).val.object
            ELSE /\ called = SubSeq(order, 1, first)
                 /\ converted = Err(Outcome(first).err)

\* C23 happens: a row whose term and whose extensions both fail was
\* converted; the error is the term's and the chain stopped at the term.
TermFailsBeforeExtensions ==
    /\ pc # "idle"
    /\ base_row.ok
    /\ ~term(base_row.val, Context(ctx)).ok
    /\ ~extensions(base_row.val, Context(ctx)).ok
    /\ term(base_row.val, Context(ctx)).err
          # extensions(base_row.val, Context(ctx)).err
    /\ converted = Err(term(base_row.val, Context(ctx)).err)
    /\ called = <<"subject", "relation", "term">>

----------------------------------------------------------------------------
(* Properties of the conversion of an association back to a row            *)

\* C13: converting an association back to a typed row never aborts the
\* process: no conversion of an association validate_gaf_2_1 returned
\* ends in a panic, whatever the Context lacks.
BackConversionNeverPanics ==
    ~(pc = "panicked" /\ maybe_assoc.some)

\* C14: for every row validate_gaf_2_1 accepts under the default Context
\* with a qualifier label the Context resolves and without a Repair
\* verdict, the record that the conversion back under the same Context
\* yields is the input row, column for column.
BackConversionReproducesRow ==
    (/\ pc = "written"
     /\ ctx = "default"
     /\ written[Len(written)].context = ctx
     /\ Col(base_row.val, 3).some
     /\ Col(base_row.val, 3).val.tag \in {"Right", "Both"}
     /\ label_to_curie(Context(ctx), Col(base_row.val, 3).val.right).some
     /\ \A i \in 1..Len(trail) : trail[i].tag # "Repair")
        => \A i \in 1..NumColumns :
              written[Len(written)].record[i] = line.val[i]

----------------------------------------------------------------------------
(* Properties of the driver and the report                                 *)

\* C15: a record of the file that is malformed or rejected never ends the
\* run: the loop never returns early on a record, every record dealt with
\* was added to the report, and the report returned counts every record.
BadRowNeverEndsRun ==
    /\ pc # "failed"
    /\ pc = "idle" => report.total = pos
    /\ pc = "done" => report.total = Len(input)

\* C19: add_result stores a message under its rule id only when its level
\* is at least the minimum level of the report, Warning: a result of state
\* Ok (level Pass) is not stored, one of state Warning or Repaired is
\* stored as Warning and one of state Error as Error, each after the
\* messages its rule already had; so no stored message has level Pass.
ReportStoresFromWarningUp ==
    [][LET Messages(rep, rule) ==
               IF rule \in DOMAIN rep.messages_by_rule
               THEN rep.messages_by_rule[rule] ELSE <<>>
           Reported(e) ==
               [line |-> RawRecordString(line.val),
                message |-> e[2].message,
                level |-> IF e[2].state = "Error" THEN "Error"
                          ELSE "Warning",
                rule |-> e[2].rule,
                entity |-> e[2].entity,
                entity_name |-> e[2].entity_name]
       IN  /\ report'.minimum_level = "Warning"
           /\ \A rule \in DOMAIN report'.messages_by_rule :
                 \A i \in 1..Len(report'.messages_by_rule[rule]) :
                     report'.messages_by_rule[rule][i].level
                         \in {"Warning", "Error"}
           /\ (pc = "validated" /\ pc' = "reported") =>
                 /\ \A e \in result_set :
                       Messages(report', e[1]) =
                           IF e[2].state = "Ok"
                           THEN Messages(report, e[1])
                           ELSE Append(Messages(report, e[1]), Reported(e))
                 /\ \A rule \in DOMAIN report'.messages_by_rule :
                       (\A e \in result_set : e[1] # rule) =>
                           Messages(report', rule) = Messages(report, rule)
      ]_vars

\* C19 happens: the ResultSet of a row with a Repaired and an Ok result
\* was added to the report; the repair is stored as a Warning and the
\* rule that passed has no message.
RepairReportedAsWarning ==
    /\ pc = "reported"
    /\ \E e \in result_set :
          /\ e[2].state = "Repaired"
          /\ e[1] \in DOMAIN report.messages_by_rule
          /\ \E i \in 1..Len(report.messages_by_rule[e[1]]) :
                /\ report.messages_by_rule[e[1]][i].level = "Warning"
                /\ report.messages_by_rule[e[1]][i].message = e[2].message
    /\ \E e \in result_set :
          /\ e[2].state = "Ok"
          /\ e[1] \notin DOMAIN report.messages_by_rule

\* C20: for every result of validate_gaf_2_1, the ResultSet has no entry
\* of state Error when an association is returned, and at least one entry
\* of state Error when none is returned.
ErrorEntryIffNoAssociation ==
    pc = "validated" =>
        (maybe_assoc.some <=> \A e \in result_set : e[2].state # "Error")

\* C20 happens: validate_gaf_2_1 has returned for a row whose conversion
\* failed: no association, and an Error entry in the ResultSet.
RejectedRowHasErrorEntry ==
    /\ pc = "validated"
    /\ ~converted.ok
    /\ maybe_assoc = None
    /\ \E e \in result_set : e[2].state = "Error"

----------------------------------------------------------------------------
(* Properties of the field types                                           *)

\* C17: for each field type with try_from and Display and every text
\* that parses, the Display of the parsed value is that text; a ListField
\* and a OneOrTwoItems join their items with a pipe, a Conjunction with a
\* comma.
DisplayOfParsedIsText ==
    pc = "shown" =>
        LET f == field.val
            Joined(sep) ==
                Join([i \in 1..Len(f.parsed.val) |->
                         to_string(f.ty.item, f.parsed.val[i])], <<sep>>)
        IN  /\ f.shown = Some(f.text)
            /\ f.ty.kind = "ListField" => f.shown.val = Joined("|")
            /\ f.ty.kind = "Conjunction" => f.shown.val = Joined(",")
            /\ (f.ty.kind = "OneOrTwoItems" /\ f.parsed.val.tag = "Two") =>
                  f.shown.val = to_string(f.ty.item, f.parsed.val.first)
                                \o <<"|">>
                                \o to_string(f.ty.item, f.parsed.val.second)

\* C17 happens: a ListField of three Curies was parsed and shown.
ListOfThreeShown ==
    /\ pc = "shown"
    /\ field.val.ty = ListFieldOf(CurieT)
    /\ Len(field.val.parsed.val) = 3
    /\ field.val.shown = Some(field.val.text)

\* C18: try_from of a ListField on a non-empty text yields the items of
\* the segments between the pipes, in order, when every segment parses,
\* and otherwise one error whose message contains the error of every
\* segment that fails.
ListFieldErrorNamesEverySegment ==
    (pc # "idle" /\ field.some /\ field.val.ty.kind = "ListField"
       /\ field.val.text # <<>>) =>
        LET f == field.val
            segments == Split(f.text, "|")
            Item(i) == TryFrom(f.ty.item, segments[i])
            failing == {i \in 1..Len(segments) : ~Item(i).ok}
        IN  IF failing = {}
            THEN f.parsed = Ok([i \in 1..Len(segments) |-> Item(i).val])
            ELSE /\ ~f.parsed.ok
                 /\ \A i \in failing :
                       FindFrom(f.parsed.err, Item(i).err, 1) # 0

\* C18 happens: a ListField of Curies was parsed whose first segment is
\* valid and whose two other segments fail with different errors.
TwoFailingSegments ==
    /\ pc = "parsed"
    /\ field.val.ty = ListFieldOf(CurieT)
    /\ field.val.text = <<"a", ":", "a", "|", "a", "|", ":", "a">>
    /\ ~field.val.parsed.ok
    /\ ParseCurie(<<"a">>).err # ParseCurie(<<":", "a">>).err
    /\ FindFrom(field.val.parsed.err, ParseCurie(<<"a">>).err, 1) # 0
    /\ FindFrom(field.val.parsed.err, ParseCurie(<<":", "a">>).err, 1) # 0

----------------------------------------------------------------------------
(* Properties of run_rules' ResultSet and association                      *)

\* C21: the ResultSet run_rules returns has exactly one entry for each
\* rule of the engine, under gorule-0000002, gorule-0000011 and
\* gorule-0000020, whatever the verdicts and the association.
OneEntryPerRule ==
    (pc = "validated" /\ converted.ok) =>
        LET ids == {<<"gorule-", "0", "0", "0", "0", "0", "0", "2">>,
                    <<"gorule-", "0", "0", "0", "0", "0", "1", "1">>,
                    <<"gorule-", "0", "0", "0", "0", "0", "2", "0">>}
        IN  /\ {e[1] : e \in result_set} = ids
            /\ Cardinality(result_set) = 3
            /\ \A e \in result_set : e[2].rule = e[1]

\* C21 happens: run_rules has returned a ResultSet whose three entries
\* have three different states.
ThreeEntriesThreeStates ==
    /\ pc = "validated"
    /\ converted.ok
    /\ Cardinality(result_set) = 3
    /\ Cardinality({e[2].state : e \in result_set}) = 3

\* C22: the association run_rules returns differs from its input only if
\* some rule returned Repair: a rule that returns Pass, Warning or Error
\* hands on the association it was given, so a run without Repair returns
\* its input, and a Repair of rule 20 changes the term id and nothing else.
OnlyRepairChangesAssociation ==
    /\ \A i \in 1..Len(trail) :
          /\ trail[i].tag \in {"Pass", "Warning", "Error"} =>
                trail[i].output = trail[i].input
          /\ (trail[i].tag = "Repair" /\ trail[i].rule = 20) =>
                /\ trail[i].output.object.id # trail[i].input.object.id
                /\ trail[i].output =
                      [trail[i].input EXCEPT
                          !.object.id = trail[i].output.object.id]
    /\ (pc = "validated" /\ converted.ok) =>
          /\ current_association.val # converted.val =>
                \E i \in 1..Len(trail) : trail[i].tag = "Repair"
          /\ (\A i \in 1..Len(trail) : trail[i].tag # "Repair") =>
                current_association.val = converted.val

\* C22 happens: run_rules has returned after a Repair of rule 20; the
\* association returned has another term id and is otherwise the input.
Rule20RepairedTermOnly ==
    /\ pc = "validated"
    /\ converted.ok
    /\ trail[3].rule = 20
    /\ trail[3].tag = "Repair"
    /\ current_association.val.object.id # converted.val.object.id
    /\ current_association.val =
          [converted.val EXCEPT
              !.object.id = current_association.val.object.id]

----------------------------------------------------------------------------
(* Properties of the parsers of the compound field types                   *)

\* C24: for every item type, try_from of a Conjunction on the empty text
\* succeeds with no element, as try_from of a ListField of that item type
\* does.
EmptyConjunctionIsEmpty ==
    (pc # "idle" /\ field.some /\ field.val.ty.kind = "Conjunction"
       /\ field.val.text = <<>>) =>
        /\ field.val.parsed = Ok(<<>>)
        /\ field.val.parsed =
              TryFrom(ListFieldOf(field.val.ty.item), field.val.text)

\* C25: try_from of an EitherOrBoth splits at the first pipe only.  When
\* L parses the first segment, the result is Left if there is no second
\* segment, Both if R parses the second segment, and a failure, without
\* fallback to Right, if R rejects it.  When L rejects the first segment,
\* the result is Right if R parses that segment, and otherwise a failure
\* whose message has the error of L and the error of R.
EitherOrBothAtFirstPipe ==
    (pc # "idle" /\ field.some /\ field.val.ty.kind = "EitherOrBoth") =>
        LET f == field.val
            pipe == IndexOf(f.text, "|", 1)
            first == IF pipe = 0 THEN f.text ELSE SubSeq(f.text, 1, pipe - 1)
            second == SubSeq(f.text, pipe + 1, Len(f.text))
            l_first == TryFrom(f.ty.left, first)
            r_first == TryFrom(f.ty.right, first)
            r_second == TryFrom(f.ty.right, second)
        IN  IF l_first.ok
            THEN IF pipe = 0
                 THEN f.parsed =
                        Ok([tag |-> "Left", left |-> l_first.val])
                 ELSE IF r_second.ok
                 THEN f.parsed =
                        Ok([tag |-> "Both", left |-> l_first.val,
                            right |-> r_second.val])
                 ELSE ~f.parsed.ok
            ELSE IF r_first.ok
                 THEN f.parsed =
                        Ok([tag |-> "Right", right |-> r_first.val])
                 ELSE /\ ~f.parsed.ok
                      /\ FindFrom(f.parsed.err, l_first.err, 1) # 0
                      /\ FindFrom(f.parsed.err, r_first.err, 1) # 0

\* C25 happens: L parsed the first segment, R rejected the second one but
\* would have parsed the first, and the parse failed.
SecondSegmentRejected ==
    /\ pc = "parsed"
    /\ field.val.ty = EitherOrBothOf(CurieT, LabelT)
    /\ field.val.text = <<"a", ":", "a", "|", "a", " ", "a">>
    /\ TryFrom(CurieT, <<"a", ":", "a">>).ok
    /\ TryFrom(LabelT, <<"a", ":", "a">>).ok
    /\ ~TryFrom(LabelT, <<"a", " ", "a">>).ok
    /\ ~field.val.parsed.ok

\* C26: try_from of a ClassExpression succeeds only on a text of the
\* shape relation(filler): a non-empty relation text, "(", a non-empty
\* filler text and ")" at the end, the relation text being the longest
\* the shape admits.  Then the relation text is parsed as R and the filler
\* text as F, and an error of R or of F is the error of the parse; a text
\* without the shape is a format error.
ClassExpressionShape ==
    (pc # "idle" /\ field.some /\ field.val.ty.kind = "ClassExpression") =>
        LET f == field.val
            n == Len(f.text)
            opens == {i \in 1..n : /\ f.text[i] = "("
                                   /\ i > 1
                                   /\ i + 1 < n
                                   /\ f.text[n] = ")"}
            open == CHOOSE i \in opens : \A j \in opens : j <= i
            rel == TryFrom(f.ty.relation, SubSeq(f.text, 1, open - 1))
            fil == TryFrom(f.ty.filler, SubSeq(f.text, open + 1, n - 1))
        IN  IF opens = {}
            THEN f.parsed =
                   Err(<<"Error parsing ">> \o f.text
                       \o <<". Must be 'relation(filler)'">>)
            ELSE IF ~rel.ok THEN f.parsed = Err(rel.err)
            ELSE IF ~fil.ok THEN f.parsed = Err(fil.err)
            ELSE f.parsed = Ok([relation |-> rel.val, filler |-> fil.val])

\* C26 happens: a text of the shape relation(filler) with two "(" was
\* parsed; the relation is the text before the last "(".
NestedParenParsed ==
    /\ pc = "parsed"
    /\ field.val.ty = ClassExpressionOf(LabelT, CurieT)
    /\ field.val.text = <<"a", "(", "a", "(", "a", ":", "a", ")">>
    /\ field.val.parsed =
          Ok([relation |-> <<"a", "(", "a">>,
              filler |-> [namespace |-> <<"a">>, identifier |-> <<"a">>]])

\* C27: try_from of a NoSpaceString rejects every text with a whitespace
\* character (space, tab, newline) and accepts every text without one.
NoSpaceStringRejectsWhitespace ==
    (pc # "idle" /\ field.some /\ field.val.ty.kind = "NoSpaceString") =>
        LET f == field.val
            whitespace == \E i \in 1..Len(f.text) :
                              f.text[i] \in {" ", "\t", "\n"}
        IN  IF whitespace THEN ~f.parsed.ok
            ELSE f.parsed = Ok(f.text)

----------------------------------------------------------------------------
(* Properties of the lookups of the Context                                *)

\* C28: curie_for_uri contracts a Uri with the longest prefix of the table
\* the Uri starts with, whatever the iteration order of the table, and
\* finds nothing when the Uri starts with no prefix of the table; for a
\* Curie whose namespace the table has, curie_for_uri of its uri_for_curie
\* is the Curie.
CurieForUriLongestPrefix ==
    /\ (pc = "looked_up" /\ lookup.val.op = "curie_for_uri") =>
          LET l == lookup.val
              starts == {i \in 1..Len(l.mapping) :
                            /\ Len(l.mapping[i][1]) <= Len(l.uri)
                            /\ SubSeq(l.uri, 1, Len(l.mapping[i][1]))
                                  = l.mapping[i][1]}
              longest == CHOOSE i \in starts :
                            \A j \in starts :
                                Len(l.mapping[j][1]) <= Len(l.mapping[i][1])
          IN  IF starts = {} THEN l.res = None
              ELSE l.res =
                     Some([namespace |-> l.mapping[longest][2],
                           identifier |->
                               SubSeq(l.uri, Len(l.mapping[longest][1]) + 1,
                                      Len(l.uri))])
    /\ (pc = "looked_up" /\ lookup.val.op = "uri_for_curie") =>
          ((\E i \in 1..Len(lookup.val.mapping) :
               lookup.val.mapping[i][2] = lookup.val.curie.namespace)
             => lookup.val.res = Some(lookup.val.curie))

\* C29: in the default evidence table, the evidence code that curie_to_eco
\* gives for the Curie that eco_to_curie(c, None) gives is c, for every
\* evidence code c.
EcoCodeRoundTrip ==
    (pc = "looked_up" /\ lookup.val.op = "eco_to_curie") =>
        /\ lookup.val.curie.some
        /\ lookup.val.res = Some(lookup.val.code)

----------------------------------------------------------------------------
(* Properties of the counters of the Report                                *)

\* C30: every call of Report.add_result adds one to total, and one to
\* skipped exactly when its ResultSet has an entry of state Error; nothing
\* else changes the counters, which start at zero, so total is the number
\* of calls, skipped the number of calls with an Error entry, and skipped
\* never exceeds total.
ReportCountsCalls ==
    [][LET call == pc = "validated" /\ pc' = "reported"
           error == \E e \in result_set : e[2].state = "Error"
       IN  /\ call =>
                 /\ report'.total = report.total + 1
                 /\ report'.skipped
                       = report.skipped + (IF error THEN 1 ELSE 0)
           /\ ~call =>
                 /\ report'.total = report.total
                 /\ report'.skipped = report.skipped
           /\ report'.skipped <= report'.total
           /\ report'.skipped >= 0]_vars

\* C30 happens: add_result was called twice, once with a ResultSet that
\* has an Error entry and once with one that has none.
OneSkippedOfTwo ==
    /\ pc = "reported"
    /\ report.total = 2
    /\ report.skipped = 1
    /\ \A e \in result_set : e[2].state # "Error"

====
